---- MODULE Spec2Model ----
(***************************************************************************)
(* Serving pipeline of the RAG chatbot: the TTL cache (utils/cache.py),    *)
(* the retry decorator (utils/retry.py), the CLI chat loop (main.py) and   *)
(* the WebSocket /chat loop (web/backend/main.py).                         *)
(*                                                                         *)
(* Python values.  A str is a sequence of tokens (a token is one character *)
(* or one fixed multi-character piece such as "user" or ": ").  A Python   *)
(* object that may be None is a sequence of length at most one: PyNone is  *)
(* None and PyStr(s) is the str s.                                         *)
(***************************************************************************)
EXTENDS Integers, Sequences, FiniteSets, TLC

VARIABLES
    cache,          \* SimpleCache.cache: dict key -> {'value', 'expires_at'}
    now,            \* time.time()
    ticks,          \* number of clock advances so far
    lastCall        \* the last SimpleCache call and what it returned

VARIABLES
    r_pc,           \* retry_with_backoff.wrapper: where the call stands
    max_attempts,   \* the decorator's arguments ...
    exceptions,     \* ... the tuple of exception classes to retry on
    plan,           \* what the wrapped func does on its 1st, 2nd, ... invocation
    attempt,        \* the loop variable of `for attempt in range(max_attempts)`
    calls,          \* invocations of func so far
    slept,          \* the attempts after which time.sleep was called
    delays,         \* the arguments of those time.sleep calls
    backoff,        \* base_delay, max_delay, exponential_base, jitter of the decorator
    last_exception, \* wrapper's last_exception
    r_result        \* how wrapper ended: the value returned or the exception raised

VARIABLES
    k_hist,         \* two conversation histories, as two sessions hold them
    k_query,        \* the sanitized query both sessions ask
    k_keys          \* the cache keys derived for (k_hist[1], k_query), (k_hist[2], k_query)

VARIABLES
    action,          \* main(): args.action, "none" until main has dispatched
    metrics,         \* utils/monitoring.py: the global MetricsCollector's Metrics
    cli_pc,          \* handle_chat: where the chat loop stands
    chat_history,    \* handle_chat: chat_history
    validated_query, \* handle_chat: validated_query of the turn in progress
    start_time,      \* handle_chat: start_time of the turn in progress
    cli_turn,        \* what the current (or last) turn of the CLI loop did
    cli_end          \* which exit of handle_chat was taken

VARIABLES
    rag_chain,       \* web backend: app.state.rag_chain
    ws_pc,           \* websocket_endpoint, per connection: where it stands
    ws_connected,    \* per connection: the client is still there
    ws_history,      \* per connection: chat_history
    ws_data,         \* per connection: data, the message being answered
    ws_stream,       \* per connection: what rag_chain.astream has yet to yield
    ws_buffer,       \* per connection: response_buffer
    ws_sent,         \* per connection: the messages sent to the client
    ws_turn          \* per connection: what the current (or last) turn did

VARIABLES
    health,          \* what the last get_health_status call returned, None before
    recorded         \* the record_request calls made so far, counted by their arguments

VARIABLES
    settings,        \* config/settings.py: the query-length fields of Settings
    v_query,         \* the raw query handed to validate_query
    v_first,         \* what validate_query(v_query) gave, None before the call
    v_second         \* what validate_query gave for the sanitized query, None before

VARIABLES
    cached_call      \* utils/cache.py: the last call of a function under @cached

VARIABLES
    file_path,       \* validation.py: the path handed to validate_file_path
    path_result      \* what validate_file_path(file_path) gave, None before the call

VARIABLES
    docs,            \* rag_pipeline.py: the retrieved documents, best first
    max_chars,       \* optimize_context_for_tinydolphin: the max_chars argument
    optimized,       \* what optimize_context_for_tinydolphin returned, None before
    minimal          \* what minimal_context_processing returned, None before

VARIABLES
    ct_pc,           \* per thread: where its SimpleCache call stands
    ct_key,          \* per thread: the key argument of the call
    ct_entry,        \* per thread: SimpleCache.get's local `entry`
    ct_result,       \* per thread: how its last call ended
    ct_calls,        \* per thread: calls started so far
    stored           \* the (key, value) pairs handed to set so far

VARIABLES
    mt_pc,           \* per thread: where its record_request call stands
    mt_success,      \* per thread: the success argument of the call
    mt_loaded,       \* per thread: the counter value loaded by `+= 1`
    mt_started       \* record_request calls started so far

cacheVars == <<cache, now, ticks, lastCall>>
chatVars == <<cli_pc, chat_history, validated_query, start_time, cli_turn, cli_end>>
cliVars == <<metrics, cli_pc, chat_history, validated_query, start_time, cli_turn, cli_end>>
metricsVars == <<health, recorded>>
valVars == <<settings, v_query, v_first, v_second>>
ctxVars == <<docs, max_chars, optimized, minimal>>
pathVars == <<file_path, path_result>>
cachedVars == <<cached_call>>
ctVars == <<ct_pc, ct_key, ct_entry, ct_result, ct_calls, stored>>
mtVars == <<mt_pc, mt_success, mt_loaded, mt_started>>
webVars == <<rag_chain, ws_pc, ws_connected, ws_history, ws_data, ws_stream, ws_buffer,
             ws_sent, ws_turn>>
retryVars == <<r_pc, max_attempts, exceptions, plan, attempt, calls, slept, delays,
               backoff, last_exception, r_result>>
keyVars == <<k_hist, k_query, k_keys>>

\* what a step of one component leaves alone
CacheFrame ==
    UNCHANGED <<retryVars, keyVars, action, cliVars, webVars, metricsVars,
                valVars, ctxVars, ctVars, mtVars, pathVars, cachedVars>>
RetryFrame ==
    UNCHANGED <<cacheVars, keyVars, action, cliVars, webVars, metricsVars,
                valVars, ctxVars, ctVars, mtVars, pathVars, cachedVars>>
KeyFrame ==
    UNCHANGED <<cacheVars, retryVars, action, cliVars, webVars, metricsVars,
                valVars, ctxVars, ctVars, mtVars, pathVars, cachedVars>>
CliFrame ==
    UNCHANGED <<retryVars, keyVars, webVars, metricsVars, valVars,
                ctxVars, ctVars, mtVars, pathVars, cachedVars>>
WebFrame ==
    UNCHANGED <<cacheVars, retryVars, keyVars, cliVars, metricsVars,
                valVars, ctxVars, ctVars, mtVars, pathVars, cachedVars>>
MetricsFrame ==
    UNCHANGED <<cacheVars, retryVars, keyVars, action, webVars, valVars,
                ctxVars, ctVars, mtVars, pathVars, cachedVars, chatVars>>
MetricsRaceFrame ==
    UNCHANGED <<cacheVars, retryVars, keyVars, action, webVars, metricsVars,
                valVars, ctxVars, ctVars, pathVars, cachedVars, chatVars>>
CacheRaceFrame ==
    UNCHANGED <<retryVars, keyVars, action, cliVars, webVars, metricsVars, valVars,
                ctxVars, mtVars, pathVars, cachedVars, now, ticks, lastCall>>
ValidationFrame ==
    UNCHANGED <<cacheVars, retryVars, keyVars, action, cliVars, webVars,
                metricsVars, ctxVars, ctVars, mtVars, pathVars, cachedVars>>
ContextFrame ==
    UNCHANGED <<cacheVars, retryVars, keyVars, action, cliVars, webVars,
                metricsVars, valVars, ctVars, mtVars, pathVars, cachedVars>>
PathFrame ==
    UNCHANGED <<cacheVars, retryVars, keyVars, action, cliVars, webVars,
                metricsVars, valVars, ctxVars, ctVars, mtVars, cachedVars>>
CachedFrame ==
    UNCHANGED <<retryVars, keyVars, action, cliVars, webVars,
                metricsVars, valVars, ctxVars, ctVars, mtVars, pathVars>>

PyNone == <<>>
PyStr(s) == <<s>>

\* bool(x) of an Optional[str]: None and "" are falsy
Truthy(obj) == obj # PyNone /\ obj[1] # <<>>


\* hashlib.md5(s.encode()).hexdigest(), taken as injective: the digest of s
\* stands for s itself
Md5(s) == <<"md5", s>>

\* f"query:{md5(query)}"
QueryCacheKey(query) == <<"query:", Md5(query)>>

(***************************************************************************)
(* str helpers                                                             *)
(***************************************************************************)
\* characters a token stands for: len() counts these
Width(tok) ==
    CASE tok \in {"<script>", "<SCRIPT>"} -> 8
      [] tok \in {"</script>", "</SCRIPT>"} -> 9
      [] tok = "javascript:" -> 11
      [] tok = "vbscript:" -> 9
      [] tok = "data:text/html" -> 14
      [] tok = "onload" -> 6
      [] tok = "z*1000" -> 1000
      [] tok \in {"exit", "quit", "EXIT", "user", "User"} -> 4
      [] tok = "assistant" -> 9
      [] tok = ": " -> 2
      [] OTHER -> 1

RECURSIVE StrLen(_)
StrLen(s) == IF s = <<>> THEN 0 ELSE Width(Head(s)) + StrLen(Tail(s))

\* str.lower(), token by token
LowerTok(tok) ==
    CASE tok = "<SCRIPT>" -> "<script>"
      [] tok = "</SCRIPT>" -> "</script>"
      [] tok = "EXIT" -> "exit"
      [] tok = "User" -> "user"
      [] tok = "T" -> "t"
      [] OTHER -> tok
Lower(s) == [i \in 1..Len(s) |-> LowerTok(s[i])]

\* \s of the re module, str.isspace
IsSpace(tok) == tok \in {" ", "\n", "\t"}

RECURSIVE LStrip(_)
LStrip(s) == IF s # <<>> /\ IsSpace(Head(s)) THEN LStrip(Tail(s)) ELSE s
RECURSIVE RStrip(_)
RStrip(s) ==
    IF s # <<>> /\ IsSpace(s[Len(s)]) THEN RStrip(SubSeq(s, 1, Len(s) - 1)) ELSE s
\* str.strip()
Strip(s) == RStrip(LStrip(s))

\* a substitution that turns every whitespace character into a space of its own
SpaceEach(s) == [i \in 1..Len(s) |-> IF IsSpace(s[i]) THEN " " ELSE s[i]]

\* re.sub(r'\s+', ' ', s): every maximal run of whitespace becomes one space
RECURSIVE CollapseWs(_)
CollapseWs(s) ==
    IF s = <<>> THEN <<>>
    ELSE IF IsSpace(Head(s)) THEN <<" ">> \o CollapseWs(LStrip(s))
    ELSE <<Head(s)>> \o CollapseWs(Tail(s))

\* sep.join(parts)
RECURSIVE Join(_, _)
Join(parts, sep) ==
    IF parts = <<>> THEN <<>>
    ELSE IF Len(parts) = 1 THEN parts[1]
    ELSE parts[1] \o sep \o Join(Tail(parts), sep)

(***************************************************************************)
(* utils/validation.py: validate_query                                     *)
(***************************************************************************)
max_query_chars == 2000
min_query_chars == 2

\* re.search(r'<script.*?>.*?</script>', q, re.IGNORECASE): '.' does not match
\* a newline, so the closing tag must follow on the same line
MatchesScriptTag(q) ==
    \E i, j \in 1..Len(q) :
        /\ i < j
        /\ LowerTok(q[i]) = "<script>"
        /\ LowerTok(q[j]) = "</script>"
        /\ \A m \in i + 1..j - 1 : q[m] # "\n"

\* re.search(r'javascript:', q, re.IGNORECASE)
MatchesJavascriptUrl(q) == \E i \in 1..Len(q) : LowerTok(q[i]) = "javascript:"

\* re.search(r'data:text/html', q, re.IGNORECASE)
MatchesDataUrl(q) == \E i \in 1..Len(q) : LowerTok(q[i]) = "data:text/html"

\* re.search(r'vbscript:', q, re.IGNORECASE)
MatchesVbscript(q) == \E i \in 1..Len(q) : LowerTok(q[i]) = "vbscript:"

\* re.search(r'on\w+\s*=', q, re.IGNORECASE): "on", word characters, any
\* whitespace (newlines too), "="
MatchesEventHandler(q) ==
    \E i, j \in 1..Len(q) :
        /\ i < j
        /\ LowerTok(q[i]) = "onload"
        /\ q[j] = "="
        /\ \A m \in i + 1..j - 1 : IsSpace(q[m])

\* any of dangerous_patterns matches
Dangerous(q) ==
    \/ MatchesScriptTag(q)
    \/ MatchesJavascriptUrl(q)
    \/ MatchesDataUrl(q)
    \/ MatchesVbscript(q)
    \/ MatchesEventHandler(q)

ValidationFailure(msg) == [ok |-> FALSE, value |-> <<>>, error |-> msg]

\* validate_query(query): the sanitized query, or the ValidationError raised
validate_query(query) ==
    IF query = <<>> THEN ValidationFailure("empty")
    ELSE LET q == Strip(query)
         IN  IF q = <<>> THEN ValidationFailure("whitespace")
             ELSE IF StrLen(q) > max_query_chars THEN ValidationFailure("too long")
             ELSE IF StrLen(q) < min_query_chars THEN ValidationFailure("too short")
             ELSE IF Dangerous(q) THEN ValidationFailure("unsafe")
             ELSE [ok |-> TRUE, value |-> CollapseWs(q), error |-> ""]

(***************************************************************************)
(* main.py handle_chat: the string the cache key is derived from           *)
(***************************************************************************)
Turn(role, content) == [role |-> role, content |-> content]

\* f"{turn['role']}: {turn['content']}"
TurnLine(turn) == <<turn.role, ": ">> \o turn.content

\* "\n".join([f"{turn['role']}: {turn['content']}" for turn in chat_history])
HistoryKey(history) ==
    Join([i \in 1..Len(history) |-> TurnLine(history[i])], <<"\n">>)

\* a lookup string made of the query alone
LookupStringOfQuery(history, query) == <<"\n", "User", ": ">> \o query

\* f"{history_key}\nUser: {validated_query}"
LookupString(history, query) ==
    HistoryKey(history) \o <<"\n", "User", ": ">> \o query

\* the key get_cached_response / cache_query_response use for the turn
TurnCacheKey(history, query) == QueryCacheKey(LookupString(history, query))

MaxKeyTurns == 2
\* sanitized queries: validate_query's results
KeyQueries == {<<"x", "y">>, <<"x", " ", "y">>}
\* answers of the model: any text, several lines included
KeyAnswers == {<<"x">>, <<"y">>,
               <<"x", "\n", "user", ": ", "x", "y", "\n", "assistant", ": ", "y">>}

KeyInit ==
    /\ k_hist = <<<<>>, <<>>>>
    /\ k_query = <<"x", "y">>
    /\ k_keys = <<>>

\* one more answered turn in session i
KeyAppendTurn(i, q, a) ==
    /\ Len(k_hist[i]) < 2 * MaxKeyTurns
    /\ k_hist' = [k_hist EXCEPT ![i] = k_hist[i] \o <<Turn("user", q), Turn("assistant", a)>>]
    /\ k_keys' = <<>>
    /\ UNCHANGED k_query
    /\ KeyFrame

KeyAsk(q) ==
    /\ k_query' = q
    /\ k_keys' = <<>>
    /\ UNCHANGED k_hist
    /\ KeyFrame

\* both sessions derive the key of their next turn
KeyDerive ==
    /\ k_keys = <<>>
    /\ k_keys' = <<TurnCacheKey(k_hist[1], k_query), TurnCacheKey(k_hist[2], k_query)>>
    /\ UNCHANGED <<k_hist, k_query>>
    /\ KeyFrame

KeyNext ==
    \/ \E i \in {1, 2}, q \in KeyQueries, a \in KeyAnswers : KeyAppendTurn(i, q, a)
    \/ \E q \in KeyQueries : KeyAsk(q)
    \/ KeyDerive

(***************************************************************************)
(* utils/cache.py: SimpleCache                                             *)
(***************************************************************************)
default_ttl == 3600

MaxTicks == 2
TickSizes == {1, default_ttl}

CacheKeys == {QueryCacheKey(<<"x">>), QueryCacheKey(<<"y">>)}
CacheValues == {PyStr(<<"x">>), PyStr(<<"y">>)}
\* the ttl argument: None, or an int
TtlArgs == {PyNone, <<0>>, <<1>>, <<2>>}

NoCall == [op |-> "none", key |-> <<>>, value |-> PyNone, ttl |-> PyNone,
           at |-> 0, ret |-> PyNone, evicted |-> FALSE]

\* ttl = ttl or self.default_ttl
EffectiveTtl(ttl) == IF ttl # PyNone /\ ttl[1] # 0 THEN ttl[1] ELSE default_ttl

\* time.time() > entry['expires_at']
Expired(entry, t) == t > entry.expires_at

Remove(d, key) == [k \in DOMAIN d \ {key} |-> d[k]]
Put(d, key, entry) == [k \in DOMAIN d \cup {key} |-> IF k = key THEN entry ELSE d[k]]

\* SimpleCache.get: the state of the dict after the call
CacheAfterGet(d, key, t) ==
    IF key \in DOMAIN d /\ Expired(d[key], t) THEN Remove(d, key) ELSE d

\* SimpleCache.get: the value returned
CacheGetResult(d, key, t) ==
    IF key \notin DOMAIN d THEN PyNone
    ELSE IF Expired(d[key], t) THEN PyNone
    ELSE d[key].value

\* SimpleCache.set: the state of the dict after the call
CacheAfterSet(d, key, value, ttl, t) ==
    Put(d, key, [value |-> value, expires_at |-> t + EffectiveTtl(ttl)])

\* a get that reports the miss but leaves the stale entry in the dict
CacheGetNoEvict(key) ==
    /\ cache' = cache
    /\ lastCall' = [NoCall EXCEPT !.op = "get", !.key = key, !.at = now,
                       !.ret = CacheGetResult(cache, key, now),
                       !.evicted = key \in DOMAIN cache /\ Expired(cache[key], now)]
    /\ UNCHANGED <<now, ticks>>
    /\ CacheFrame

CacheGet(key) ==
    /\ cache' = CacheAfterGet(cache, key, now)
    /\ lastCall' = [NoCall EXCEPT !.op = "get", !.key = key, !.at = now,
                       !.ret = CacheGetResult(cache, key, now),
                       !.evicted = key \in DOMAIN cache /\ Expired(cache[key], now)]
    /\ UNCHANGED <<now, ticks>>
    /\ CacheFrame

CacheSet(key, value, ttl) ==
    /\ cache' = CacheAfterSet(cache, key, value, ttl, now)
    /\ lastCall' = [NoCall EXCEPT !.op = "set", !.key = key, !.value = value,
                       !.ttl = ttl, !.at = now]
    /\ UNCHANGED <<now, ticks>>
    /\ CacheFrame

CacheClear ==
    /\ cache' = <<>>
    /\ lastCall' = [NoCall EXCEPT !.op = "clear", !.at = now]
    /\ UNCHANGED <<now, ticks>>
    /\ CacheFrame

\* SimpleCache.size
CacheSize(d) == Cardinality(DOMAIN d)

\* the clock moves on between two calls
Tick ==
    /\ ticks < MaxTicks
    /\ \E d \in TickSizes : now' = now + d
    /\ ticks' = ticks + 1
    /\ UNCHANGED <<cache, lastCall>>
    /\ CacheFrame

CacheInit ==
    /\ cache = <<>>
    /\ now = 0
    /\ ticks = 0
    /\ lastCall = NoCall

CacheNext ==
    \/ \E k \in CacheKeys : CacheGet(k)
    \/ \E k \in CacheKeys, v \in CacheValues, t \in TtlArgs : CacheSet(k, v, t)
    \/ CacheClear
    \/ Tick


(***************************************************************************)
(* utils/retry.py: retry_with_backoff                                      *)
(***************************************************************************)
MaxAttempts == 3

\* exception classes raised by the wrapped operation
ErrorKinds == {"ConnectionError", "TimeoutError", "ValueError", "KeyboardInterrupt"}
Outcomes == {"ok"} \cup ErrorKinds

\* issubclass(kind, cls) in Python's built-in exception hierarchy
IsSubclass(kind, cls) ==
    \/ kind = cls
    \/ cls = "BaseException"
    \/ cls = "Exception" /\ kind \in {"ConnectionError", "TimeoutError", "ValueError"}
    \/ cls \in {"OSError", "IOError"} /\ kind \in {"ConnectionError", "TimeoutError"}

\* the default of the `exceptions` parameter
DefaultExceptions == {"Exception"}
\* retry_ollama_connection's tuple
OllamaExceptions == {"ConnectionError", "TimeoutError", "Exception"}
\* a caller that names the transient kinds only
TransientExceptions == {"ConnectionError", "TimeoutError"}
Policies == {DefaultExceptions, OllamaExceptions, TransientExceptions}

\* `except exceptions as e` catches kind
CatchesAll(excs, kind) == TRUE
Caught(excs, kind) == \E cls \in excs : IsSubclass(kind, cls)

\* `if attempt == max_attempts - 1`
IsLastAttemptEarly(a, m) == a >= m - 2
IsLastAttempt(a, m) == a = m - 1

Exc(kind, call, cause) == [kind |-> kind, call |-> call, cause |-> cause]
NoResult == [how |-> "none", value |-> 0, exc |-> PyNone]

\* the delay parameters of a decorator; exponential_base is a fraction
Backoff(base_delay, max_delay, exponential_base, jitter) ==
    [base_delay |-> base_delay, max_delay |-> max_delay,
     exponential_base |-> exponential_base, jitter |-> jitter]
\* the defaults of retry_with_backoff
DefaultBackoff == Backoff(1, 60, <<2, 1>>, TRUE)
\* retry_ollama_connection, retry_vector_store_operation
OllamaBackoff == Backoff(2, 30, <<2, 1>>, TRUE)
VectorStoreBackoff == Backoff(1, 10, <<3, 2>>, TRUE)
\* callers that pass their own: without jitter, and with a max_delay that the
\* second delay reaches
PlainBackoff == Backoff(1, 60, <<2, 1>>, FALSE)
TightBackoff == Backoff(2, 3, <<2, 1>>, FALSE)
TightJitterBackoff == Backoff(2, 3, <<2, 1>>, TRUE)
Backoffs == {DefaultBackoff, OllamaBackoff, VectorStoreBackoff, PlainBackoff,
             TightBackoff, TightJitterBackoff}

RECURSIVE Pow(_, _)
Pow(b, n) == IF n = 0 THEN 1 ELSE b * Pow(b, n - 1)

\* delays are counted in units of which DelayUnits make a second: products
\* with exponential_base ** attempt and with the jitter factor are exact
DelayUnits == 200 * Pow(2, MaxAttempts)

\* random.random(), in hundredths
Randoms == {0, 50, 99}

\* a delay that grows without a ceiling
BackoffDelayUncapped(bk, a) ==
    (bk.base_delay * Pow(bk.exponential_base[1], a) * DelayUnits)
        \div Pow(bk.exponential_base[2], a)

\* min(base_delay * (exponential_base ** attempt), max_delay)
BackoffDelay(bk, a) ==
    LET grown == (bk.base_delay * Pow(bk.exponential_base[1], a) * DelayUnits)
                     \div Pow(bk.exponential_base[2], a)
        ceiling == bk.max_delay * DelayUnits
    IN  IF grown < ceiling THEN grown ELSE ceiling

\* delay *= (0.5 + random.random() * 0.5)
Jittered(delay, rnd) == (delay * (100 + rnd)) \div 200

RetryIdle ==
    /\ r_pc = "idle"
    /\ delays = <<>>
    /\ backoff = DefaultBackoff
    /\ max_attempts = 0
    /\ exceptions = {}
    /\ plan = <<>>
    /\ attempt = 0
    /\ calls = 0
    /\ slept = <<>>
    /\ last_exception = PyNone
    /\ r_result = NoResult

\* wrapper(*args, **kwargs) is entered: last_exception = None, the loop starts
RetryCall(m, excs, p, bk) ==
    /\ r_pc = "idle"
    /\ r_pc' = "loop"
    /\ max_attempts' = m
    /\ exceptions' = excs
    /\ plan' = p
    /\ attempt' = 0
    /\ calls' = 0
    /\ slept' = <<>>
    /\ delays' = <<>>
    /\ backoff' = bk
    /\ last_exception' = PyNone
    /\ r_result' = NoResult
    /\ RetryFrame

\* a loop that invokes func once before it looks at max_attempts
RetryAttemptAtLeastOnce ==
    /\ r_pc = "loop"
    /\ attempt < max_attempts \/ calls = 0
    /\ calls' = calls + 1
    /\ LET outcome == plan[calls + 1]
           e == Exc(outcome, calls + 1, PyNone)
       IN  IF outcome = "ok"
           THEN /\ r_pc' = "returned"
                /\ r_result' = [how |-> "return", value |-> calls + 1, exc |-> PyNone]
                /\ UNCHANGED last_exception
           ELSE IF Caught(exceptions, outcome)
           THEN /\ last_exception' = <<e>>
                /\ IF IsLastAttempt(attempt, max_attempts)
                   THEN /\ r_pc' = "raised"
                        /\ r_result' = [how |-> "raise", value |-> 0,
                                        exc |-> <<Exc("RetryError", 0, <<e>>)>>]
                   ELSE /\ r_pc' = "sleeping"
                        /\ UNCHANGED r_result
           ELSE /\ r_pc' = "raised"
                /\ r_result' = [how |-> "raise", value |-> 0, exc |-> <<e>>]
                /\ UNCHANGED last_exception
    /\ UNCHANGED <<max_attempts, exceptions, plan, attempt, slept, delays, backoff>>
    /\ RetryFrame

\* one pass through the loop body up to the sleep: func is invoked
RetryAttempt ==
    /\ r_pc = "loop"
    /\ attempt < max_attempts
    /\ calls' = calls + 1
    /\ LET outcome == plan[calls + 1]
           e == Exc(outcome, calls + 1, PyNone)
       IN  IF outcome = "ok"
           THEN /\ r_pc' = "returned"
                /\ r_result' = [how |-> "return", value |-> calls + 1, exc |-> PyNone]
                /\ UNCHANGED last_exception
           ELSE IF Caught(exceptions, outcome)
           THEN /\ last_exception' = <<e>>
                /\ IF IsLastAttempt(attempt, max_attempts)
                   THEN /\ r_pc' = "raised"
                        /\ r_result' = [how |-> "raise", value |-> 0,
                                        exc |-> <<Exc("RetryError", 0, <<e>>)>>]
                   ELSE /\ r_pc' = "sleeping"
                        /\ UNCHANGED r_result
           ELSE /\ r_pc' = "raised"
                /\ r_result' = [how |-> "raise", value |-> 0, exc |-> <<e>>]
                /\ UNCHANGED last_exception
    /\ UNCHANGED <<max_attempts, exceptions, plan, attempt, slept, delays, backoff>>
    /\ RetryFrame

\* time.sleep(delay), then the next value of the loop variable
RetrySleep ==
    /\ r_pc = "sleeping"
    /\ slept' = Append(slept, attempt)
    /\ IF backoff.jitter
       THEN \E rnd \in Randoms :
                delays' = Append(delays, Jittered(BackoffDelay(backoff, attempt), rnd))
       ELSE delays' = Append(delays, BackoffDelay(backoff, attempt))
    /\ attempt' = attempt + 1
    /\ r_pc' = "loop"
    /\ UNCHANGED <<max_attempts, exceptions, plan, calls, backoff, last_exception,
                   r_result>>
    /\ RetryFrame

\* range(max_attempts) is exhausted: the raise after the loop
RetryFallThrough ==
    /\ r_pc = "loop"
    /\ attempt >= max_attempts
    /\ r_pc' = "raised"
    /\ r_result' = [how |-> "raise", value |-> 0,
                    exc |-> <<Exc("RetryError", 0, last_exception)>>]
    /\ UNCHANGED <<max_attempts, exceptions, plan, attempt, calls, slept, delays, backoff,
                   last_exception>>
    /\ RetryFrame

\* the decorated function is called again later
RetryDone ==
    /\ r_pc \in {"returned", "raised"}
    /\ r_pc' = "idle"
    /\ max_attempts' = 0
    /\ exceptions' = {}
    /\ plan' = <<>>
    /\ attempt' = 0
    /\ calls' = 0
    /\ slept' = <<>>
    /\ delays' = <<>>
    /\ backoff' = DefaultBackoff
    /\ last_exception' = PyNone
    /\ r_result' = NoResult
    /\ RetryFrame

RetryNext ==
    \/ \E m \in -1..MaxAttempts, excs \in Policies, p \in [1..MaxAttempts + 1 -> Outcomes] :
          RetryCall(m, excs, p, PlainBackoff)
    \/ RetryAttempt
    \/ RetrySleep
    \/ RetryFallThrough
    \/ RetryDone

\* calls that fail with ConnectionError until they succeed, if they do, under
\* each of the delay settings
BackoffPlans == [1..MaxAttempts + 1 -> {"ok", "ConnectionError"}]
BackoffNext ==
    \/ \E m \in {0, MaxAttempts}, p \in BackoffPlans, bk \in Backoffs :
          RetryCall(m, DefaultExceptions, p, bk)
    \/ RetryAttempt
    \/ RetrySleep
    \/ RetryFallThrough
    \/ RetryDone


(***************************************************************************)
(* utils/monitoring.py: MetricsCollector.record_request                    *)
(***************************************************************************)
ResponseTimesMaxLen == 100

NoMetrics ==
    [total_requests |-> 0, successful_requests |-> 0, failed_requests |-> 0,
     error_counts |-> <<>>, response_times |-> <<>>,
     average_response_time |-> [sum |-> 0, n |-> 1],
     cache_hits |-> 0, cache_misses |-> 0, memory_usage_mb |-> 0]

\* sum(seq), by halves
RECURSIVE Sum(_)
Sum(seq) ==
    IF Len(seq) = 0 THEN 0
    ELSE IF Len(seq) = 1 THEN seq[1]
    ELSE LET half == Len(seq) \div 2
         IN  Sum(SubSeq(seq, 1, half)) + Sum(SubSeq(seq, half + 1, Len(seq)))

\* a list that keeps every sample
AppendUnbounded(dq, x) == Append(dq, x)

\* deque(maxlen=100).append
DequeAppend(dq, x) ==
    IF Len(dq) >= ResponseTimesMaxLen THEN Append(Tail(dq), x) ELSE Append(dq, x)

\* a record_request that counts a failed request as a request only
RecordRequestDropsFailure(m, success, response_time, error_type) ==
    LET times == DequeAppend(m.response_times, response_time)
    IN  [m EXCEPT !.total_requests = @ + 1,
                  !.successful_requests = IF success THEN @ + 1 ELSE @,
                  !.response_times = times,
                  !.average_response_time = [sum |-> Sum(times), n |-> Len(times)]]

\* error_type is None (PyNone) or the name of the exception class
RecordRequest(m, success, response_time, error_type) ==
    LET times == DequeAppend(m.response_times, response_time)
        errs == IF ~success /\ error_type # PyNone /\ error_type[1] # ""
                THEN Put(m.error_counts, error_type[1],
                         IF error_type[1] \in DOMAIN m.error_counts
                         THEN m.error_counts[error_type[1]] + 1 ELSE 1)
                ELSE m.error_counts
    IN  [m EXCEPT !.total_requests = @ + 1,
                  !.successful_requests = IF success THEN @ + 1 ELSE @,
                  !.failed_requests = IF success THEN @ ELSE @ + 1,
                  !.error_counts = errs,
                  !.response_times = times,
                  !.average_response_time = [sum |-> Sum(times), n |-> Len(times)]]

(***************************************************************************)
(* main.py: handle_chat, the CLI chat loop                                 *)
(***************************************************************************)
MaxRequests == 2

MaxCliTicks == 1

\* retry_ollama_connection's max_attempts
ollama_max_attempts == 5

\* cache_query_response's default ttl
query_ttl == 1800

\* what the user types at the prompt
RawInputs == {<<"exit">>, <<" ">>, <<"x", "y">>, <<"x", " ", "\t", "y">>,
              <<"<script>", "x", "</script>">>}
\* what rag_chain.invoke returns
Responses == {<<>>, <<"x">>}
\* what rag_chain.invoke raises
ChainErrors == {"ConnectionError", "ValueError", "KeyboardInterrupt"}
\* what input() raises
InputErrors == {"KeyboardInterrupt", "EOFError"}

\* `except Exception` catches the kind
IsException(kind) == kind # "KeyboardInterrupt"

NoTurn == [raw |-> PyNone, outcome |-> "none", invoked |-> 0, error |-> PyNone,
           printed |-> "", delivered |-> PyNone]

CliInit ==
    /\ action = "none"
    /\ metrics = NoMetrics
    /\ cli_pc = "off"
    /\ chat_history = <<>>
    /\ validated_query = <<>>
    /\ start_time = 0
    /\ cli_turn = NoTurn
    /\ cli_end = ""

\* handle_chat() up to the prompt: warmup and chain creation succeed or not.
\* The cache and the metrics are module globals: they outlive a call that has
\* returned, and the next call of the process starts with an empty history.
HandleChat(ok) ==
    /\ action \in {"none", "chat"}
    /\ cli_pc \in {"off", "ended"}
    /\ action' = "chat"
    /\ chat_history' = <<>>
    /\ cli_turn' = NoTurn
    /\ IF ok THEN cli_pc' = "input" /\ cli_end' = ""
             ELSE cli_pc' = "ended" /\ cli_end' = "not ready"
    /\ UNCHANGED <<metrics, validated_query, start_time, cacheVars>>
    /\ CliFrame

\* query = input("> ") up to start_time = time.time()
CliInput(raw) ==
    /\ cli_pc = "input"
    /\ LET v == validate_query(raw)
           t == [NoTurn EXCEPT !.raw = PyStr(raw)]
       IN  IF Lower(raw) \in {<<"exit">>, <<"quit">>}
           THEN /\ cli_pc' = "ended"
                /\ cli_end' = "exit"
                /\ cli_turn' = [t EXCEPT !.outcome = "exit", !.printed = "goodbye"]
                /\ UNCHANGED <<validated_query, start_time>>
           ELSE IF Strip(raw) = <<>>
           THEN /\ cli_turn' = [t EXCEPT !.outcome = "blank"]
                /\ UNCHANGED <<cli_pc, cli_end, validated_query, start_time>>
           ELSE IF ~v.ok
           THEN /\ cli_turn' = [t EXCEPT !.outcome = "rejected", !.printed = "validation error"]
                /\ UNCHANGED <<cli_pc, cli_end, validated_query, start_time>>
           ELSE /\ metrics.total_requests < MaxRequests
                /\ cli_pc' = "lookup"
                /\ validated_query' = v.value
                /\ start_time' = now
                /\ cli_turn' = [t EXCEPT !.outcome = "processing", !.printed = "thinking"]
                /\ UNCHANGED cli_end
    /\ UNCHANGED <<action, metrics, chat_history, cacheVars>>
    /\ CliFrame

\* input() raises: KeyboardInterrupt or a failure of the read
CliInputRaises(kind) ==
    /\ cli_pc = "input"
    /\ cli_pc' = "ended"
    /\ cli_end' = IF kind = "KeyboardInterrupt" THEN "interrupt" ELSE "unexpected"
    /\ cli_turn' = [NoTurn EXCEPT !.outcome = "no input", !.error = <<kind>>,
                       !.printed = IF kind = "KeyboardInterrupt" THEN "goodbye"
                                   ELSE "unexpected error"]
    /\ UNCHANGED <<action, metrics, chat_history, validated_query, start_time, cacheVars>>
    /\ CliFrame

\* a history update that keeps the answer and forgets the question
AppendAnswerOnly(history, user_role, query, bot_role, answer) ==
    history \o <<Turn(bot_role, answer)>>

\* chat_history.append(question turn); chat_history.append(answer turn)
AppendTurn(history, user_role, query, bot_role, answer) ==
    history \o <<Turn(user_role, query), Turn(bot_role, answer)>>

\* get_cached_response(...) and, on a hit, the whole cache branch
CliLookup ==
    /\ cli_pc = "lookup"
    /\ LET key == TurnCacheKey(chat_history, validated_query)
           cached_response == CacheGetResult(cache, key, now)
       IN  /\ cache' = CacheAfterGet(cache, key, now)
           /\ lastCall' = [NoCall EXCEPT !.op = "get", !.key = key, !.at = now,
                              !.ret = cached_response,
                              !.evicted = key \in DOMAIN cache /\ Expired(cache[key], now)]
           /\ IF Truthy(cached_response)
              THEN /\ metrics' = RecordRequest(metrics, TRUE, now - start_time, PyNone)
                   /\ chat_history' = AppendTurn(chat_history, "user", validated_query,
                                                 "assistant", cached_response[1])
                   /\ cli_turn' = [cli_turn EXCEPT !.outcome = "hit", !.printed = "cached answer",
                                                   !.delivered = cached_response]
                   /\ cli_pc' = "input"
              ELSE /\ cli_pc' = "invoking"
                   /\ UNCHANGED <<metrics, chat_history, cli_turn>>
    /\ UNCHANGED <<action, validated_query, start_time, cli_end, now, ticks>>
    /\ CliFrame

\* rag_chain.invoke returns: the rest of the miss branch
CliChainReturns(response) ==
    /\ cli_pc = "invoking"
    /\ LET key == TurnCacheKey(chat_history, validated_query)
       IN  /\ cache' = CacheAfterSet(cache, key, PyStr(response), <<query_ttl>>, now)
           /\ lastCall' = [NoCall EXCEPT !.op = "set", !.key = key, !.value = PyStr(response),
                              !.ttl = <<query_ttl>>, !.at = now]
    /\ chat_history' = AppendTurn(chat_history, "user", validated_query, "assistant", response)
    /\ metrics' = RecordRequest(metrics, TRUE, now - start_time, PyNone)
    /\ cli_turn' = [cli_turn EXCEPT !.outcome = "answered", !.printed = "answer",
                                    !.invoked = @ + 1, !.delivered = PyStr(response)]
    /\ cli_pc' = "input"
    /\ UNCHANGED <<action, validated_query, start_time, cli_end, now, ticks>>
    /\ CliFrame

\* a chat loop that a failed turn brings down
CliChainRaisesEndsLoop(kind) ==
    /\ cli_pc = "invoking"
    /\ cli_turn' = [cli_turn EXCEPT !.outcome = "failed", !.printed = "failure notice",
                                    !.invoked = @ + 1, !.error = <<kind>>]
    /\ cli_pc' = "ended"
    /\ cli_end' = "unexpected"
    /\ UNCHANGED <<action, metrics, chat_history, validated_query, start_time, cacheVars>>
    /\ CliFrame

\* rag_chain.invoke raises: the inner `except Exception`, or the outer handlers
CliChainRaises(kind) ==
    /\ cli_pc = "invoking"
    /\ IF IsException(kind)
       THEN /\ metrics' = RecordRequest(metrics, FALSE, now - start_time, <<kind>>)
            /\ cli_turn' = [cli_turn EXCEPT !.outcome = "failed", !.printed = "failure notice",
                                            !.invoked = @ + 1, !.error = <<kind>>]
            /\ cli_pc' = "input"
            /\ UNCHANGED cli_end
       ELSE /\ cli_turn' = [cli_turn EXCEPT !.outcome = "interrupted", !.printed = "goodbye",
                                            !.invoked = @ + 1, !.error = <<kind>>]
            /\ cli_pc' = "ended"
            /\ cli_end' = "interrupt"
            /\ UNCHANGED metrics
    /\ UNCHANGED <<action, chat_history, validated_query, start_time, cacheVars>>
    /\ CliFrame

\* the clock moves on while the CLI runs
CliTick ==
    /\ action = "chat"
    /\ ticks < MaxCliTicks
    /\ \E d \in TickSizes : now' = now + d
    /\ ticks' = ticks + 1
    /\ UNCHANGED <<cache, lastCall, action, cliVars>>
    /\ CliFrame

(***************************************************************************)
(* utils/cache.py: the `cached` decorator around a function of one         *)
(* argument, on the global cache                                           *)
(***************************************************************************)
\* calls of the decorated function
MaxCachedCalls == 2
\* the default of the decorator's ttl parameter
cached_ttl == 3600

\* what the decorated function returns: None, '' or 'x'
CachedResults == {PyNone, PyStr(<<>>), PyStr(<<"x">>)}
CachedArgs == {<<"x">>}

\* hashlib.md5(f"{func.__name__}:{str(args)}:{str(sorted(kwargs.items()))}")
CachedKey(arg) == Md5(<<"f", ":">> \o arg \o <<":", "[]">>)

NoCachedCall == [calls |-> 0, key |-> <<>>, had_entry |-> FALSE, executed |-> FALSE,
                 returned |-> PyNone]

CachedInit == cached_call = NoCachedCall

\* a wrapper that takes whatever entry the cache holds for the result
CachedCallServesEntry(arg, result) ==
    /\ action = "none"
    /\ cached_call.calls < MaxCachedCalls
    /\ LET key == CachedKey(arg)
           live == key \in DOMAIN cache /\ ~Expired(cache[key], now)
       IN  /\ cache' = IF live THEN cache
                       ELSE CacheAfterSet(cache, key, result, <<cached_ttl>>, now)
           /\ lastCall' = IF live
                          THEN [NoCall EXCEPT !.op = "get", !.key = key, !.at = now,
                                              !.ret = cache[key].value]
                          ELSE [NoCall EXCEPT !.op = "set", !.key = key, !.value = result,
                                              !.ttl = <<cached_ttl>>, !.at = now]
           /\ cached_call' = [calls |-> cached_call.calls + 1, key |-> key,
                              had_entry |-> live, executed |-> ~live,
                              returned |-> IF live THEN cache[key].value ELSE result]
    /\ UNCHANGED <<now, ticks>>
    /\ CachedFrame

\* cached.wrapper: cache.get, and on `result is None` func and cache.set
CachedCall(arg, result) ==
    /\ action = "none"
    /\ cached_call.calls < MaxCachedCalls
    /\ LET key == CachedKey(arg)
           found == CacheGetResult(cache, key, now)
           live == key \in DOMAIN cache /\ ~Expired(cache[key], now)
       IN  IF found # PyNone
           THEN /\ cache' = CacheAfterGet(cache, key, now)
                /\ lastCall' = [NoCall EXCEPT !.op = "get", !.key = key, !.at = now,
                                              !.ret = found]
                /\ cached_call' = [calls |-> cached_call.calls + 1, key |-> key,
                                   had_entry |-> live, executed |-> FALSE,
                                   returned |-> found]
           ELSE /\ cache' = CacheAfterSet(CacheAfterGet(cache, key, now), key, result,
                                          <<cached_ttl>>, now)
                /\ lastCall' = [NoCall EXCEPT !.op = "set", !.key = key, !.value = result,
                                              !.ttl = <<cached_ttl>>, !.at = now]
                /\ cached_call' = [calls |-> cached_call.calls + 1, key |-> key,
                                   had_entry |-> live, executed |-> TRUE,
                                   returned |-> result]
    /\ UNCHANGED <<now, ticks>>
    /\ CachedFrame

\* one process: it calls decorated functions, or it runs the chat loop
CachedNext ==
    \/ \E arg \in CachedArgs, result \in CachedResults : CachedCall(arg, result)
    \/ \E ok \in BOOLEAN : cached_call.calls = 0 /\ HandleChat(ok)
    \/ \E raw \in RawInputs : CliInput(raw)
    \/ \E kind \in InputErrors : CliInputRaises(kind)
    \/ CliLookup
    \/ \E response \in Responses : CliChainReturns(response)
    \/ \E kind \in ChainErrors : CliChainRaises(kind)
    \/ CliTick

(***************************************************************************)
(* web/backend/main.py: startup_event and websocket_endpoint               *)
(***************************************************************************)
\* Settings.max_concurrent_requests is read from the environment and must be
\* at least 1; the smallest admissible value is taken
max_concurrent_requests == 1
\* one connection more than the configured limit
Sessions == 1..max_concurrent_requests + 1

\* messages received by the server, all connections together
MaxWsTurns == 2

\* what a client sends
WsMessages == {<<"x", "y">>, <<"<script>", "x", "</script>">>}
\* what rag_chain.astream yields: the fragments of one answer
Streams == {<<<<"x">>>>, <<<<"x">>, <<"y">>>>}
\* what rag_chain.astream raises
StreamErrors == {"ConnectionError", "ValueError"}

Msg(kind, text) == [kind |-> kind, text |-> text]
\* sent_before: how many messages the connection had been sent when the turn began
NoWsTurn == [received |-> 0, streams |-> 0, failure |-> PyNone, outcome |-> "none",
             sent_before |-> 0]

WebInit ==
    /\ rag_chain = "unset"
    /\ ws_pc = [s \in Sessions |-> "off"]
    /\ ws_connected = [s \in Sessions |-> FALSE]
    /\ ws_history = [s \in Sessions |-> <<>>]
    /\ ws_data = [s \in Sessions |-> <<>>]
    /\ ws_stream = [s \in Sessions |-> <<>>]
    /\ ws_buffer = [s \in Sessions |-> <<>>]
    /\ ws_sent = [s \in Sessions |-> <<>>]
    /\ ws_turn = [s \in Sessions |-> NoWsTurn]

\* handle_web: uvicorn runs the app, startup_event loads the chain or fails to
WebStartup(ok) ==
    /\ action = "none"
    /\ action' = "web"
    /\ rag_chain' = IF ok THEN "ready" ELSE "unset"
    /\ UNCHANGED <<ws_pc, ws_connected, ws_history, ws_data, ws_stream, ws_buffer,
                   ws_sent, ws_turn>>
    /\ WebFrame

\* an endpoint that sends the error notice and enters the loop all the same
WsAcceptGoesOn(s) ==
    /\ action = "web"
    /\ ws_pc[s] = "off"
    /\ ws_sent' = [ws_sent EXCEPT ![s] =
                      <<Msg(IF rag_chain # "ready" THEN "not initialized" ELSE "ready", <<>>)>>]
    /\ ws_pc' = [ws_pc EXCEPT ![s] = "awaiting"]
    /\ ws_connected' = [ws_connected EXCEPT ![s] = TRUE]
    /\ UNCHANGED <<action, rag_chain, ws_history, ws_data, ws_stream, ws_buffer, ws_turn>>
    /\ WebFrame

\* websocket_endpoint up to the loop: accept, then the error or the ready notice
WsAccept(s) ==
    /\ action = "web"
    /\ ws_pc[s] = "off"
    /\ IF rag_chain # "ready"
       THEN /\ ws_sent' = [ws_sent EXCEPT ![s] = <<Msg("not initialized", <<>>)>>]
            /\ ws_pc' = [ws_pc EXCEPT ![s] = "closed"]
            /\ ws_connected' = [ws_connected EXCEPT ![s] = FALSE]
       ELSE /\ ws_sent' = [ws_sent EXCEPT ![s] = <<Msg("ready", <<>>)>>]
            /\ ws_pc' = [ws_pc EXCEPT ![s] = "awaiting"]
            /\ ws_connected' = [ws_connected EXCEPT ![s] = TRUE]
    /\ UNCHANGED <<action, rag_chain, ws_history, ws_data, ws_stream, ws_buffer, ws_turn>>
    /\ WebFrame

\* the client goes away
WsClientLeaves(s) ==
    /\ ws_pc[s] \in {"awaiting", "streaming"}
    /\ ws_connected[s]
    /\ ws_connected' = [ws_connected EXCEPT ![s] = FALSE]
    /\ UNCHANGED <<action, rag_chain, ws_pc, ws_history, ws_data, ws_stream, ws_buffer,
                   ws_sent, ws_turn>>
    /\ WebFrame

\* an endpoint that reads the next message while an answer is still streaming
WsReceiveWhileStreaming(s, data, stream) ==
    /\ ws_pc[s] \in {"awaiting", "streaming"}
    /\ ws_connected[s]
    /\ Sum([t \in Sessions |-> ws_turn[t].received]) < MaxWsTurns
    /\ ws_data' = [ws_data EXCEPT ![s] = data]
    /\ ws_stream' = [ws_stream EXCEPT ![s] = stream]
    /\ ws_buffer' = [ws_buffer EXCEPT ![s] = <<>>]
    /\ ws_pc' = [ws_pc EXCEPT ![s] = "streaming"]
    /\ ws_turn' = [ws_turn EXCEPT ![s] = [received |-> @.received + 1, streams |-> 1,
                                          failure |-> PyNone, outcome |-> "processing",
                                          sent_before |-> Len(ws_sent[s])]]
    /\ UNCHANGED <<action, rag_chain, ws_connected, ws_history, ws_sent>>
    /\ WebFrame

\* data = await websocket.receive_text(), up to the call of rag_chain.astream
WsReceive(s, data, stream) ==
    /\ ws_pc[s] = "awaiting"
    /\ ws_connected[s]
    /\ Sum([t \in Sessions |-> ws_turn[t].received]) < MaxWsTurns
    /\ ws_data' = [ws_data EXCEPT ![s] = data]
    /\ ws_stream' = [ws_stream EXCEPT ![s] = stream]
    /\ ws_buffer' = [ws_buffer EXCEPT ![s] = <<>>]
    /\ ws_pc' = [ws_pc EXCEPT ![s] = "streaming"]
    /\ ws_turn' = [ws_turn EXCEPT ![s] = [received |-> @.received + 1, streams |-> 1,
                                          failure |-> PyNone, outcome |-> "processing",
                                          sent_before |-> Len(ws_sent[s])]]
    /\ UNCHANGED <<action, rag_chain, ws_connected, ws_history, ws_sent>>
    /\ WebFrame

\* receive_text raises WebSocketDisconnect: break
WsReceiveFails(s) ==
    /\ ws_pc[s] = "awaiting"
    /\ ~ws_connected[s]
    /\ ws_pc' = [ws_pc EXCEPT ![s] = "closed"]
    /\ UNCHANGED <<action, rag_chain, ws_connected, ws_history, ws_data, ws_stream,
                   ws_buffer, ws_sent, ws_turn>>
    /\ WebFrame

\* a loop that accumulates the fragment and holds it back from the client
WsChunkUnsent(s) ==
    /\ ws_pc[s] = "streaming"
    /\ ws_stream[s] # <<>>
    /\ ws_stream' = [ws_stream EXCEPT ![s] = Tail(@)]
    /\ ws_buffer' = [ws_buffer EXCEPT ![s] = @ \o Head(ws_stream[s])]
    /\ UNCHANGED <<action, rag_chain, ws_pc, ws_connected, ws_history, ws_data, ws_sent,
                   ws_turn>>
    /\ WebFrame

\* one round of `async for chunk in rag_chain.astream(...)`; a send to a client
\* that has gone raises, the notice of the handler cannot be sent either, and
\* the endpoint returns
WsChunk(s) ==
    /\ ws_pc[s] = "streaming"
    /\ ws_stream[s] # <<>>
    /\ ws_stream' = [ws_stream EXCEPT ![s] = Tail(@)]
    /\ ws_buffer' = [ws_buffer EXCEPT ![s] = @ \o Head(ws_stream[s])]
    /\ IF ws_connected[s]
       THEN /\ ws_sent' = [ws_sent EXCEPT ![s] = Append(@, Msg("chunk", Head(ws_stream[s])))]
            /\ UNCHANGED <<ws_pc, ws_turn>>
       ELSE /\ ws_pc' = [ws_pc EXCEPT ![s] = "closed"]
            /\ ws_turn' = [ws_turn EXCEPT ![s].outcome = "send failed"]
            /\ UNCHANGED ws_sent
    /\ UNCHANGED <<action, rag_chain, ws_connected, ws_history, ws_data>>
    /\ WebFrame

\* the stream is exhausted: the history is updated, back to receive_text
WsStreamEnds(s) ==
    /\ ws_pc[s] = "streaming"
    /\ ws_stream[s] = <<>>
    /\ ws_history' = [ws_history EXCEPT ![s] =
                         AppendTurn(@, "User", ws_data[s], "BOT", ws_buffer[s])]
    /\ ws_pc' = [ws_pc EXCEPT ![s] = "awaiting"]
    /\ ws_turn' = [ws_turn EXCEPT ![s].outcome = "answered"]
    /\ UNCHANGED <<action, rag_chain, ws_connected, ws_data, ws_stream, ws_buffer, ws_sent>>
    /\ WebFrame

\* a handler that keeps what had been streamed when the stream raised
WsStreamRaisesKeepsPartial(s, kind) ==
    /\ ws_pc[s] = "streaming"
    /\ ws_history' = [ws_history EXCEPT ![s] =
                         AppendTurn(@, "User", ws_data[s], "BOT", ws_buffer[s])]
    /\ ws_pc' = [ws_pc EXCEPT ![s] = IF ws_connected[s] THEN "awaiting" ELSE "closed"]
    /\ ws_turn' = [ws_turn EXCEPT ![s].outcome = "failed", ![s].failure = <<kind>>]
    /\ UNCHANGED <<action, rag_chain, ws_connected, ws_data, ws_stream, ws_buffer, ws_sent>>
    /\ WebFrame

\* rag_chain.astream raises: `except Exception` sends the notice and continues
WsStreamRaises(s, kind) ==
    /\ ws_pc[s] = "streaming"
    /\ IF ws_connected[s]
       THEN /\ ws_sent' = [ws_sent EXCEPT ![s] = Append(@, Msg("failure notice", <<>>))]
            /\ ws_pc' = [ws_pc EXCEPT ![s] = "awaiting"]
            /\ ws_turn' = [ws_turn EXCEPT ![s].outcome = "failed", ![s].failure = <<kind>>]
       ELSE /\ ws_pc' = [ws_pc EXCEPT ![s] = "closed"]
            /\ ws_turn' = [ws_turn EXCEPT ![s].outcome = "send failed",
                                          ![s].failure = <<kind>>]
            /\ UNCHANGED ws_sent
    /\ UNCHANGED <<action, rag_chain, ws_connected, ws_history, ws_data, ws_stream, ws_buffer>>
    /\ WebFrame

ServeNext ==
    \/ \E ok \in BOOLEAN : HandleChat(ok)
    \/ \E raw \in RawInputs : CliInput(raw)
    \/ \E kind \in InputErrors : CliInputRaises(kind)
    \/ CliLookup
    \/ \E response \in Responses : CliChainReturns(response)
    \/ \E kind \in ChainErrors : CliChainRaises(kind)
    \/ CliTick
    \/ \E ok \in BOOLEAN : WebStartup(ok)
    \/ \E s \in Sessions : WsAccept(s)
    \/ \E s \in Sessions : WsClientLeaves(s)
    \/ \E s \in Sessions, data \in WsMessages, stream \in Streams : WsReceive(s, data, stream)
    \/ \E s \in Sessions : WsReceiveFails(s)
    \/ \E s \in Sessions : WsChunk(s)
    \/ \E s \in Sessions : WsStreamEnds(s)
    \/ \E s \in Sessions, kind \in StreamErrors : WsStreamRaises(s, kind)

\* number of record_request calls on the collector
MaxRecorded == 4
\* number of requests a collector has seen when its health is asked for
MaxTotal == 10

\* response_time arguments, in seconds
ResponseTimes == {1, 3}
\* error_type arguments: None or type(e).__name__
ErrorTypes == {PyNone, <<"TimeoutError">>, <<"ValueError">>}
\* process.memory_info().rss / 1024 / 1024, in MB; None when psutil raises
MemorySamples == {500, 1000, 1001}
MemoryReadings == {<<mb>> : mb \in MemorySamples} \cup {PyNone}

\* times: every response time recorded, oldest first; before: the calls made
\* before the first step
NoRecorded == [calls |-> 0, ok |-> 0, failed |-> 0, by_type |-> <<>>, times |-> <<>>,
               before |-> 0]

\* update_system_metrics: a psutil failure is logged and leaves the fields alone
UpdateSystemMetrics(m, reading) ==
    IF reading = PyNone THEN m ELSE [m EXCEPT !.memory_usage_mb = reading[1]]

\* success_rate < threshold, where success_rate is 0.0 without requests and
\* (successful_requests / total_requests) * 100 otherwise
SuccessRateBelow(m, threshold) ==
    IF m.total_requests > 0
    THEN m.successful_requests * 100 < threshold * m.total_requests
    ELSE 0 < threshold

\* get_health_status()["status"], after update_system_metrics
HealthStatus(m) ==
    IF SuccessRateBelow(m, 70) \/ m.memory_usage_mb > 1000 THEN "unhealthy"
    ELSE IF SuccessRateBelow(m, 90) THEN "degraded"
    ELSE "healthy"

\* the collector after ok successful and failed failing requests
RECURSIVE AfterRequests(_, _)
AfterRequests(ok, failed) ==
    IF failed > 0
    THEN RecordRequest(AfterRequests(ok, failed - 1), FALSE, 1, <<"TimeoutError">>)
    ELSE IF ok > 0
    THEN RecordRequest(AfterRequests(ok - 1, 0), TRUE, 1, PyNone)
    ELSE NoMetrics

\* the response time of the i-th of the earlier requests: every third one,
\* from the first, took 3, the others 1
EarlierTime(i) == IF i % 3 = 1 THEN 3 ELSE 1

MetricsInit ==
    /\ health = PyNone
    /\ recorded = NoRecorded

\* one call of record_request on the global collector
MetricsRecord(success, response_time, error_type) ==
    /\ recorded.calls < recorded.before + MaxRecorded
    /\ metrics' = RecordRequest(metrics, success, response_time, error_type)
    /\ recorded' =
         [times |-> Append(recorded.times, response_time),
          before |-> recorded.before,
          calls |-> recorded.calls + 1,
          ok |-> recorded.ok + (IF success THEN 1 ELSE 0),
          failed |-> recorded.failed + (IF success THEN 0 ELSE 1),
          by_type |-> IF ~success /\ error_type # PyNone
                      THEN Put(recorded.by_type, error_type[1],
                               IF error_type[1] \in DOMAIN recorded.by_type
                               THEN recorded.by_type[error_type[1]] + 1 ELSE 1)
                      ELSE recorded.by_type]
    /\ UNCHANGED health
    /\ MetricsFrame

\* one call of get_health_status
MetricsHealth(reading) ==
    /\ metrics' = UpdateSystemMetrics(metrics, reading)
    /\ health' = <<[status |-> HealthStatus(metrics'),
                    total_requests |-> metrics.total_requests]>>
    /\ UNCHANGED recorded
    /\ MetricsFrame

\* one of the earlier requests, all successful: record_request until the
\* window is about to fill
EarlierRecord ==
    /\ recorded.calls = recorded.before
    /\ recorded.calls < ResponseTimesMaxLen + 1
    /\ metrics' = RecordRequest(metrics, TRUE, EarlierTime(recorded.calls + 1), PyNone)
    /\ recorded' = [recorded EXCEPT !.calls = @ + 1, !.ok = @ + 1, !.before = @ + 1,
                                    !.times = Append(@, EarlierTime(recorded.calls + 1))]
    /\ UNCHANGED health
    /\ MetricsFrame

\* record_request once the window is about to fill or has filled
WindowRecord(success, response_time, error_type) ==
    /\ recorded.calls >= ResponseTimesMaxLen - 2
    /\ MetricsRecord(success, response_time, error_type)

WindowNext ==
    \/ EarlierRecord
    \/ \E success \in BOOLEAN, response_time \in ResponseTimes, error_type \in ErrorTypes :
         WindowRecord(success, response_time, error_type)

MetricsNext ==
    \/ \E success \in BOOLEAN, response_time \in ResponseTimes, error_type \in ErrorTypes :
         MetricsRecord(success, response_time, error_type)
    \/ \E reading \in MemoryReadings : MetricsHealth(reading)


(***************************************************************************)
(* utils/validation.py: calls of validate_query, under some Settings       *)
(***************************************************************************)
\* number of tokens of a raw query
MaxQueryTokens == 4

\* what raw queries are made of; "z*1000" is a run of 1000 letters
QueryTokens == {"x", " ", "\n", "<script>", "</SCRIPT>", "onload", "=", "z*1000"}
RawQueries == UNION {[1..n -> QueryTokens] : n \in 0..MaxQueryTokens}

\* Settings.min_query_length (ge=1, le=10), Settings.max_query_length
\* (ge=10, le=5000): read from the environment
MinQueryLengths == {1, 2}
MaxQueryLengths == {1000, 2000}

NoValidation == PyNone

ValidationInit ==
    /\ settings = [min_query_length |-> 2, max_query_length |-> 2000]
    /\ v_query = <<>>
    /\ v_first = NoValidation
    /\ v_second = NoValidation

\* Settings() is built from the environment; a raw query has arrived
ValidationDrawn ==
    /\ settings \in [min_query_length : MinQueryLengths, max_query_length : MaxQueryLengths]
    /\ v_query \in RawQueries
    /\ v_first = NoValidation
    /\ v_second = NoValidation

\* validate_query(v_query)
Validate ==
    /\ v_first = NoValidation
    /\ v_first' = <<validate_query(v_query)>>
    /\ UNCHANGED <<settings, v_query, v_second>>
    /\ ValidationFrame

\* validate_query applied to the sanitized query it returned
ValidateAgain ==
    /\ v_first # NoValidation
    /\ v_first[1].ok
    /\ v_second = NoValidation
    /\ v_second' = <<validate_query(v_first[1].value)>>
    /\ UNCHANGED <<settings, v_query, v_first>>
    /\ ValidationFrame

ValidationNext ==
    \/ Validate
    \/ ValidateAgain

(***************************************************************************)
(* utils/validation.py: validate_file_path on paths written character by   *)
(* character                                                               *)
(***************************************************************************)
MaxPathLen == 5
PathChars == {".", "/", "t", "x", "T", "p", "d", "f"}
FilePaths == UNION {[1..n -> PathChars] : n \in 0..MaxPathLen}

\* sub in s
Contains(s, sub) ==
    \E i \in 1..(Len(s) - Len(sub) + 1) : SubSeq(s, i, i + Len(sub) - 1) = sub
\* s.startswith(prefix)
StartsWith(s, prefix) ==
    Len(s) >= Len(prefix) /\ SubSeq(s, 1, Len(prefix)) = prefix
\* s.endswith(suffix)
EndsWith(s, suffix) ==
    Len(s) >= Len(suffix) /\ SubSeq(s, Len(s) - Len(suffix) + 1, Len(s)) = suffix

allowed_extensions == {<<".", "t", "x", "t">>, <<".", "p", "d", "f">>}

\* a check of the extension that compares the path as written
validate_file_path_as_written(path) ==
    IF path = <<>> THEN [ok |-> FALSE, value |-> <<>>, error |-> "empty"]
    ELSE IF Contains(path, <<".", ".">>) \/ StartsWith(path, <<"/">>)
    THEN [ok |-> FALSE, value |-> <<>>, error |-> "invalid"]
    ELSE IF ~\E ext \in allowed_extensions : EndsWith(path, ext)
    THEN [ok |-> FALSE, value |-> <<>>, error |-> "extension"]
    ELSE [ok |-> TRUE, value |-> path, error |-> ""]

\* validate_file_path: ok is FALSE where it raises ValidationError
validate_file_path(path) ==
    IF path = <<>> THEN [ok |-> FALSE, value |-> <<>>, error |-> "empty"]
    ELSE IF Contains(path, <<".", ".">>) \/ StartsWith(path, <<"/">>)
    THEN [ok |-> FALSE, value |-> <<>>, error |-> "invalid"]
    ELSE IF ~\E ext \in allowed_extensions : EndsWith(Lower(path), ext)
    THEN [ok |-> FALSE, value |-> <<>>, error |-> "extension"]
    ELSE [ok |-> TRUE, value |-> path, error |-> ""]

PathInit ==
    /\ file_path = <<>>
    /\ path_result = PyNone

\* a path has arrived
PathDrawn ==
    /\ file_path \in FilePaths
    /\ path_result = PyNone

\* validate_file_path(file_path)
ValidatePath ==
    /\ path_result = PyNone
    /\ path_result' = <<validate_file_path(file_path)>>
    /\ UNCHANGED file_path
    /\ PathFrame

PathNext == ValidatePath

(***************************************************************************)
(* rag_pipeline.py: optimize_context_for_tinydolphin and                   *)
(* minimal_context_processing                                              *)
(***************************************************************************)
\* number of retrieved documents
MaxDocs == 3

default_max_chars == 1000
\* "if remaining_chars > 150"
meaningful_chars == 150
\* "[:400]" and "< 800" of minimal_context_processing
doc_limit_chars == 400
total_limit_chars == 800
\* len("No relevant information available."), len("No information available.")
no_relevant_information_chars == 34
no_information_chars == 25

\* A document's page_content: `lead` whitespace characters, sentences of the
\* given lengths (the last character of each is its '.'), `tail` characters
\* without a '.', `trail` whitespace characters.  Words are separated by
\* single spaces, which the two re.sub calls leave as they are.
Passage(lead, sentences, tail, trail) ==
    [lead |-> lead, sentences |-> sentences, tail |-> tail, trail |-> trail]

Passages ==
    {Passage(0, <<>>, 500, 0), Passage(1, <<400, 400>>, 0, 2),
     Passage(0, <<100>>, 60, 0), Passage(0, <<>>, 0, 1),
     Passage(0, <<239>>, 300, 0)}

DocLists == UNION {[1..n -> Passages] : n \in 0..MaxDocs}
MaxCharsArgs == {doc_limit_chars, default_max_chars}

\* len(content), content being page_content.strip() after the re.sub calls
ContentLen(doc) == Sum(doc.sentences) + doc.tail

\* content[:n].rfind('.'): the index of the last '.' among the first n
\* characters, -1 when there is none
RECURSIVE LastPeriod(_, _)
LastPeriod(sentences, n) ==
    IF sentences = <<>> \/ Head(sentences) > n THEN -1
    ELSE LET rest == LastPeriod(Tail(sentences), n - Head(sentences))
         IN  IF rest >= 0 THEN Head(sentences) + rest ELSE Head(sentences) - 1

\* the values of remaining_chars, up to 1000, for which the double
\* remaining_chars * 0.7 is below the exact product
RoundsBelow == {90, 170, 180, 330, 340, 350, 360, 650, 660, 670, 680, 690, 700,
                710, 720, 730}

\* last_period > remaining_chars * 0.7, in double arithmetic
BeyondSeventyPercent(last_period, remaining_chars) ==
    \/ 10 * last_period > 7 * remaining_chars
    \/ 10 * last_period = 7 * remaining_chars /\ remaining_chars \in RoundsBelow

\* one piece of the context: `taken` characters of document number doc
Part(doc, taken, whole, ellipsis) ==
    [doc |-> doc, taken |-> taken, whole |-> whole, ellipsis |-> ellipsis]

\* the else branch: partial content, cut at a sentence end or followed by "..."
PartialPart(doc, i, remaining_chars) ==
    LET last_period == LastPeriod(doc.sentences, remaining_chars)
    IN  IF BeyondSeventyPercent(last_period, remaining_chars)
        THEN Part(i, last_period + 1, FALSE, FALSE)
        ELSE Part(i, remaining_chars, FALSE, TRUE)

\* a packing loop that passes over a document that does not fit and goes on
RECURSIVE OptPackSkips(_, _, _, _, _)
OptPackSkips(ds, i, char_count, parts, limit) ==
    IF i > Len(ds) THEN parts
    ELSE IF char_count + ContentLen(ds[i]) <= limit
    THEN OptPackSkips(ds, i + 1, char_count + ContentLen(ds[i]),
                      Append(parts, Part(i, ContentLen(ds[i]), TRUE, FALSE)), limit)
    ELSE OptPackSkips(ds, i + 1, char_count, parts, limit)

\* the for loop of optimize_context_for_tinydolphin, from document i on
RECURSIVE OptPack(_, _, _, _, _)
OptPack(ds, i, char_count, parts, limit) ==
    IF i > Len(ds) THEN parts
    ELSE IF char_count + ContentLen(ds[i]) <= limit
    THEN OptPack(ds, i + 1, char_count + ContentLen(ds[i]),
                 Append(parts, Part(i, ContentLen(ds[i]), TRUE, FALSE)), limit)
    ELSE IF limit - char_count > meaningful_chars
    THEN Append(parts, PartialPart(ds[i], i, limit - char_count))
    ELSE parts

\* combined_content as runs of characters: a whole document is followed by
\* "\n\n", a partial one by "..." when it was not cut at a sentence end
Run(n, ws) == [n |-> n, ws |-> ws]
RECURSIVE CombinedContent(_)
CombinedContent(parts) ==
    IF parts = <<>> THEN <<>>
    ELSE (IF Head(parts).whole THEN <<Run(Head(parts).taken, FALSE), Run(2, TRUE)>>
          ELSE IF Head(parts).ellipsis THEN <<Run(Head(parts).taken, FALSE), Run(3, FALSE)>>
          ELSE <<Run(Head(parts).taken, FALSE)>>)
         \o CombinedContent(Tail(parts))

\* str.strip() on runs, then len()
Blank(run) == run.ws \/ run.n = 0
RECURSIVE StripRuns(_)
StripRuns(runs) ==
    IF runs = <<>> THEN <<>>
    ELSE IF Blank(Head(runs)) THEN StripRuns(Tail(runs))
    ELSE IF Blank(runs[Len(runs)]) THEN StripRuns(SubSeq(runs, 1, Len(runs) - 1))
    ELSE runs
RunsLen(runs) == Sum([i \in 1..Len(runs) |-> runs[i].n])

\* optimize_context_for_tinydolphin(docs, max_chars): the pieces of the
\* returned context and its length
optimize_context_for_tinydolphin(ds, limit) ==
    IF ds = <<>> THEN [parts |-> <<>>, len |-> no_relevant_information_chars]
    ELSE LET parts == OptPack(ds, 1, 0, <<>>, limit)
         IN  [parts |-> parts, len |-> RunsLen(StripRuns(CombinedContent(parts)))]

Min(a, b) == IF a < b THEN a ELSE b

\* the for loop of minimal_context_processing, from document i on
RECURSIVE MinimalPack(_, _, _, _)
MinimalPack(ds, i, total_chars, parts) ==
    IF i > Len(ds) THEN parts
    ELSE LET n == Min(ContentLen(ds[i]), doc_limit_chars)
         IN  IF total_chars + n < total_limit_chars
             THEN MinimalPack(ds, i + 1, total_chars + n,
                              Append(parts, Part(i, n, ContentLen(ds[i]) <= doc_limit_chars,
                                                 FALSE)))
             ELSE parts

\* minimal_context_processing(docs): "\n\n".join(context_parts)
minimal_context_processing(ds) ==
    IF ds = <<>> THEN [parts |-> <<>>, len |-> no_information_chars]
    ELSE LET parts == MinimalPack(ds, 1, 0, <<>>)
         IN  [parts |-> parts,
              len |-> Sum([i \in 1..Len(parts) |-> parts[i].taken])
                      + (IF parts = <<>> THEN 0 ELSE 2 * (Len(parts) - 1))]

ContextInit ==
    /\ docs = <<>>
    /\ max_chars = default_max_chars
    /\ optimized = PyNone
    /\ minimal = PyNone

\* the retriever has returned its documents
ContextDrawn ==
    /\ docs \in DocLists
    /\ max_chars \in MaxCharsArgs
    /\ optimized = PyNone
    /\ minimal = PyNone

OptimizeContext ==
    /\ optimized = PyNone
    /\ optimized' = <<optimize_context_for_tinydolphin(docs, max_chars)>>
    /\ UNCHANGED <<docs, max_chars, minimal>>
    /\ ContextFrame

MinimalContext ==
    /\ minimal = PyNone
    /\ minimal' = <<minimal_context_processing(docs)>>
    /\ UNCHANGED <<docs, max_chars, optimized>>
    /\ ContextFrame

ContextNext == OptimizeContext \/ MinimalContext

(***************************************************************************)
(* utils/cache.py: SimpleCache called from several threads.  The class     *)
(* holds no lock; a thread can be preempted between two statements of get. *)
(***************************************************************************)
MaxThreads == 2
\* calls per thread
MaxRaceCalls == 2

Threads == 1..MaxThreads
RaceTtls == {PyNone, <<1>>}

NoOutcome == [op |-> "none", how |-> "none", value |-> PyNone]
Returned(op, value) == [op |-> op, how |-> "return", value |-> value]
Raised(op, exc) == [op |-> op, how |-> "raise", value |-> <<exc>>]

CacheRaceInit ==
    /\ ct_pc = [t \in Threads |-> "idle"]
    /\ ct_key = [t \in Threads |-> <<>>]
    /\ ct_entry = [t \in Threads |-> PyNone]
    /\ ct_result = [t \in Threads |-> NoOutcome]
    /\ ct_calls = [t \in Threads |-> 0]
    /\ stored = {}

\* get: `if key not in self.cache: return None`
RaceGetLookup(t, key) ==
    /\ ct_pc[t] = "idle"
    /\ ct_calls[t] < MaxRaceCalls
    /\ ct_calls' = [ct_calls EXCEPT ![t] = @ + 1]
    /\ ct_key' = [ct_key EXCEPT ![t] = key]
    /\ ct_entry' = [ct_entry EXCEPT ![t] = PyNone]
    /\ IF key \in DOMAIN cache
       THEN /\ ct_pc' = [ct_pc EXCEPT ![t] = "get: entry"]
            /\ ct_result' = [ct_result EXCEPT ![t] = NoOutcome]
       ELSE /\ ct_pc' = [ct_pc EXCEPT ![t] = "idle"]
            /\ ct_result' = [ct_result EXCEPT ![t] = Returned("get", PyNone)]
    /\ UNCHANGED <<cache, stored>>
    /\ CacheRaceFrame

\* get: `entry = self.cache[key]`
RaceGetEntry(t) ==
    /\ ct_pc[t] = "get: entry"
    /\ IF ct_key[t] \in DOMAIN cache
       THEN /\ ct_entry' = [ct_entry EXCEPT ![t] = <<cache[ct_key[t]]>>]
            /\ ct_pc' = [ct_pc EXCEPT ![t] = "get: expired?"]
            /\ UNCHANGED ct_result
       ELSE /\ ct_result' = [ct_result EXCEPT ![t] = Raised("get", "KeyError")]
            /\ ct_pc' = [ct_pc EXCEPT ![t] = "idle"]
            /\ UNCHANGED ct_entry
    /\ UNCHANGED <<cache, ct_key, ct_calls, stored>>
    /\ CacheRaceFrame

\* get: `if time.time() > entry['expires_at']`, else `return entry['value']`
RaceGetExpired(t) ==
    /\ ct_pc[t] = "get: expired?"
    /\ IF Expired(ct_entry[t][1], now)
       THEN /\ ct_pc' = [ct_pc EXCEPT ![t] = "get: del"]
            /\ UNCHANGED ct_result
       ELSE /\ ct_pc' = [ct_pc EXCEPT ![t] = "idle"]
            /\ ct_result' = [ct_result EXCEPT ![t] = Returned("get", ct_entry[t][1].value)]
    /\ UNCHANGED <<cache, ct_key, ct_entry, ct_calls, stored>>
    /\ CacheRaceFrame

\* get: `del self.cache[key]` and `return None`
RaceGetDel(t) ==
    /\ ct_pc[t] = "get: del"
    /\ ct_pc' = [ct_pc EXCEPT ![t] = "idle"]
    /\ IF ct_key[t] \in DOMAIN cache
       THEN /\ cache' = Remove(cache, ct_key[t])
            /\ ct_result' = [ct_result EXCEPT ![t] = Returned("get", PyNone)]
       ELSE /\ ct_result' = [ct_result EXCEPT ![t] = Raised("get", "KeyError")]
            /\ UNCHANGED cache
    /\ UNCHANGED <<ct_key, ct_entry, ct_calls, stored>>
    /\ CacheRaceFrame

\* set: the entry is built and stored by one subscript assignment
RaceSet(t, key, value, ttl) ==
    /\ ct_pc[t] = "idle"
    /\ ct_calls[t] < MaxRaceCalls
    /\ ct_calls' = [ct_calls EXCEPT ![t] = @ + 1]
    /\ cache' = CacheAfterSet(cache, key, value, ttl, now)
    /\ stored' = stored \cup {<<key, value>>}
    /\ ct_key' = [ct_key EXCEPT ![t] = key]
    /\ ct_result' = [ct_result EXCEPT ![t] = Returned("set", PyNone)]
    /\ UNCHANGED <<ct_pc, ct_entry>>
    /\ CacheRaceFrame

\* clear: dict.clear() is one call
RaceClear(t) ==
    /\ ct_pc[t] = "idle"
    /\ ct_calls[t] < MaxRaceCalls
    /\ ct_calls' = [ct_calls EXCEPT ![t] = @ + 1]
    /\ cache' = <<>>
    /\ ct_result' = [ct_result EXCEPT ![t] = Returned("clear", PyNone)]
    /\ UNCHANGED <<ct_pc, ct_key, ct_entry, stored>>
    /\ CacheRaceFrame

CacheRaceNext ==
    \/ \E t \in Threads, key \in CacheKeys : RaceGetLookup(t, key)
    \/ \E t \in Threads : RaceGetEntry(t)
    \/ \E t \in Threads : RaceGetExpired(t)
    \/ \E t \in Threads : RaceGetDel(t)
    \/ \E t \in Threads, key \in CacheKeys, value \in CacheValues, ttl \in RaceTtls :
         RaceSet(t, key, value, ttl)
    \/ \E t \in Threads : RaceClear(t)
    \/ Tick

(***************************************************************************)
(* utils/monitoring.py: record_request called from several threads.  Each  *)
(* `+= 1` loads the counter, adds, and stores; a thread can be preempted   *)
(* between the load and the store.                                         *)
(***************************************************************************)
MetricsRaceInit ==
    /\ mt_pc = [t \in Threads |-> "idle"]
    /\ mt_success = [t \in Threads |-> TRUE]
    /\ mt_loaded = [t \in Threads |-> 0]
    /\ mt_started = 0

\* record_request(success, 1): self.metrics.total_requests is loaded
RaceLoadTotal(t, success) ==
    /\ mt_pc[t] = "idle"
    /\ mt_started < MaxThreads
    /\ mt_started' = mt_started + 1
    /\ mt_success' = [mt_success EXCEPT ![t] = success]
    /\ mt_loaded' = [mt_loaded EXCEPT ![t] = metrics.total_requests]
    /\ mt_pc' = [mt_pc EXCEPT ![t] = "total: store"]
    /\ UNCHANGED metrics
    /\ MetricsRaceFrame

\* self.metrics.total_requests is stored
RaceStoreTotal(t) ==
    /\ mt_pc[t] = "total: store"
    /\ metrics' = [metrics EXCEPT !.total_requests = mt_loaded[t] + 1]
    /\ mt_pc' = [mt_pc EXCEPT ![t] = "outcome: load"]
    /\ UNCHANGED <<mt_success, mt_loaded, mt_started>>
    /\ MetricsRaceFrame

\* `if success:` and the load of successful_requests or failed_requests
RaceLoadOutcome(t) ==
    /\ mt_pc[t] = "outcome: load"
    /\ mt_loaded' = [mt_loaded EXCEPT ![t] = IF mt_success[t]
                                             THEN metrics.successful_requests
                                             ELSE metrics.failed_requests]
    /\ mt_pc' = [mt_pc EXCEPT ![t] = "outcome: store"]
    /\ UNCHANGED <<metrics, mt_success, mt_started>>
    /\ MetricsRaceFrame

\* the store of that counter, then response_times.append and the average;
\* error_type is None
RaceStoreOutcome(t) ==
    /\ mt_pc[t] = "outcome: store"
    /\ LET times == DequeAppend(metrics.response_times, 1)
       IN  metrics' =
             [metrics EXCEPT
                !.successful_requests = IF mt_success[t] THEN mt_loaded[t] + 1 ELSE @,
                !.failed_requests = IF mt_success[t] THEN @ ELSE mt_loaded[t] + 1,
                !.response_times = times,
                !.average_response_time = [sum |-> Sum(times), n |-> Len(times)]]
    /\ mt_pc' = [mt_pc EXCEPT ![t] = "idle"]
    /\ UNCHANGED <<mt_success, mt_loaded, mt_started>>
    /\ MetricsRaceFrame

MetricsRaceNext ==
    \/ \E t \in Threads, success \in BOOLEAN : RaceLoadTotal(t, success)
    \/ \E t \in Threads : RaceStoreTotal(t)
    \/ \E t \in Threads : RaceLoadOutcome(t)
    \/ \E t \in Threads : RaceStoreOutcome(t)

(***************************************************************************)
(* The specifications                                                      *)
(***************************************************************************)
vars == <<cacheVars, retryVars, keyVars, action, cliVars, webVars, metricsVars, valVars, ctxVars, ctVars, mtVars, pathVars, cachedVars>>

Init ==
    /\ CacheInit /\ RetryIdle /\ KeyInit /\ CliInit /\ WebInit /\ MetricsInit
    /\ ValidationInit /\ ContextInit /\ CacheRaceInit /\ MetricsRaceInit /\ PathInit /\ CachedInit

\* the health of a collector that has seen some requests
HealthInit ==
    /\ CacheInit /\ RetryIdle /\ KeyInit /\ WebInit /\ MetricsInit
    /\ ValidationInit /\ ContextInit /\ CacheRaceInit /\ MetricsRaceInit /\ PathInit /\ CachedInit
    /\ action = "none"
    /\ cli_pc = "off"
    /\ chat_history = <<>>
    /\ validated_query = <<>>
    /\ start_time = 0
    /\ cli_turn = NoTurn
    /\ cli_end = ""
    /\ \E total \in 0..MaxTotal : \E ok \in 0..total :
         metrics = AfterRequests(ok, total - ok)

HealthNext == \E reading \in MemoryReadings : MetricsHealth(reading)

\* calls on a SimpleCache
SpecCache == Init /\ [][CacheNext]_vars
\* calls of a function decorated with retry_with_backoff
SpecRetry == Init /\ [][RetryNext]_vars
\* the delays between the attempts of such calls
SpecBackoff == Init /\ [][BackoffNext]_vars
\* functions under @cached, or the CLI chat loop, on the global cache
SpecCached == Init /\ [][CachedNext]_vars
\* cache keys of two sessions
SpecKey == Init /\ [][KeyNext]_vars
\* one process serving: the CLI chat loop or the web backend
SpecServe == Init /\ [][ServeNext]_vars
\* record_request and get_health_status calls on a fresh collector
SpecMetrics == Init /\ [][MetricsNext]_vars
\* validate_query on raw queries, and again on what it returned
ValidationStart ==
    /\ CacheInit /\ RetryIdle /\ KeyInit /\ CliInit /\ WebInit /\ MetricsInit
    /\ ContextInit /\ CacheRaceInit /\ MetricsRaceInit /\ PathInit /\ CachedInit
    /\ ValidationDrawn
SpecValidation == ValidationStart /\ [][ValidationNext]_vars
\* the two context optimizers on retrieved documents
ContextStart ==
    /\ CacheInit /\ RetryIdle /\ KeyInit /\ CliInit /\ WebInit /\ MetricsInit
    /\ ValidationInit /\ CacheRaceInit /\ MetricsRaceInit /\ PathInit /\ CachedInit
    /\ ContextDrawn
SpecContext == ContextStart /\ [][ContextNext]_vars
\* validate_file_path on paths
PathStart ==
    /\ CacheInit /\ RetryIdle /\ KeyInit /\ CliInit /\ WebInit /\ MetricsInit
    /\ ValidationInit /\ ContextInit /\ CacheRaceInit /\ MetricsRaceInit /\ CachedInit
    /\ PathDrawn
SpecPath == PathStart /\ [][PathNext]_vars
\* threads calling the shared SimpleCache
SpecCacheRace == Init /\ [][CacheRaceNext]_vars
\* threads calling record_request on the shared collector
SpecMetricsRace == Init /\ [][MetricsRaceNext]_vars
\* record_request calls on a collector whose window fills
SpecWindow == Init /\ [][WindowNext]_vars
\* get_health_status calls on a collector that has seen requests
SpecHealth == HealthInit /\ [][HealthNext]_vars

(***************************************************************************)
(* C1: for ttl > 0, a get(k) that follows set(k, v, ttl) before the ttl    *)
(* has elapsed returns v; a get(k) made once the clock is past the entry's *)
(* expires_at returns a miss and removes the entry, so size() is one less  *)
(* than just before that get.                                              *)
(***************************************************************************)
C1_SetGetThenExpire ==
    [][\A k \in CacheKeys :
        CacheGet(k) =>
          /\ (/\ lastCall.op = "set" /\ lastCall.key = k
              /\ lastCall.ttl # PyNone /\ lastCall.ttl[1] > 0
              /\ now <= lastCall.at + lastCall.ttl[1])
             => lastCall'.ret = lastCall.value
          /\ (k \in DOMAIN cache /\ now > cache[k].expires_at)
             => /\ lastCall'.ret = PyNone
                /\ k \notin DOMAIN cache'
                /\ CacheSize(cache') = CacheSize(cache) - 1]_vars

C1_Witness ==
    /\ lastCall.op = "get"
    /\ lastCall.evicted
    /\ lastCall.ret = PyNone
    /\ lastCall.key \notin DOMAIN cache

\* the kind is among the policy's retryable kinds: it is one of the listed
\* classes or derives from one
RetryableKind(excs, kind) == \E cls \in excs : IsSubclass(kind, cls)

RetryEnded == r_pc \in {"returned", "raised"}
\* the operation raises an error the policy retries on each of its first n invocations
FailsRetryably(n) == \A i \in 1..n : plan[i] # "ok" /\ RetryableKind(exceptions, plan[i])

(***************************************************************************)
(* C4: for max_attempts >= 1, when the operation raises a retryable error  *)
(* on each of its first max_attempts-1 invocations and succeeds on the     *)
(* next, the call returns that invocation's value after exactly            *)
(* max_attempts invocations and exactly max_attempts-1 sleeps.             *)
(***************************************************************************)
C4_SucceedsOnLastAttempt ==
    (/\ RetryEnded
     /\ max_attempts >= 1
     /\ FailsRetryably(max_attempts - 1)
     /\ plan[max_attempts] = "ok")
    => /\ r_result = [how |-> "return", value |-> max_attempts, exc |-> PyNone]
       /\ calls = max_attempts
       /\ Len(slept) = max_attempts - 1

C4_Witness ==
    /\ r_pc = "returned"
    /\ max_attempts = MaxAttempts
    /\ FailsRetryably(max_attempts - 1)
    /\ calls = max_attempts
    /\ Len(slept) = max_attempts - 1

(***************************************************************************)
(* C5 as stated: when the operation raises a retryable error on every      *)
(* invocation, the call invokes it exactly max_attempts times, sleeps      *)
(* exactly max_attempts-1 times and raises RetryError whose cause is the   *)
(* last underlying error.                                                  *)
(***************************************************************************)
C5_AlwaysFailsConclusion ==
    /\ calls = max_attempts
    /\ Len(slept) = max_attempts - 1
    /\ r_result.how = "raise"
    /\ r_result.exc = <<Exc("RetryError", 0, <<Exc(plan[max_attempts], max_attempts, PyNone)>>)>>

C5_Original ==
    (RetryEnded /\ FailsRetryably(Len(plan)))
    => /\ calls = max_attempts
       /\ Len(slept) = max_attempts - 1
       /\ r_result.how = "raise"
       /\ r_result.exc[1].kind = "RetryError"
       /\ r_result.exc[1].cause = last_exception
       /\ last_exception # PyNone

(***************************************************************************)
(* C5 amended: for max_attempts >= 1, when the operation raises a          *)
(* retryable error on every invocation, the call invokes it exactly        *)
(* max_attempts times, sleeps exactly max_attempts-1 times (the last sleep *)
(* follows attempt max_attempts-2, none follows the final attempt) and     *)
(* raises RetryError whose cause is the error of the last invocation.      *)
(***************************************************************************)
C5_ExhaustedAfterMaxAttempts ==
    (RetryEnded /\ max_attempts >= 1 /\ FailsRetryably(Len(plan)))
    => /\ C5_AlwaysFailsConclusion
       /\ \A i \in 1..Len(slept) : slept[i] = i - 1

C5_Witness ==
    /\ r_pc = "raised"
    /\ max_attempts = MaxAttempts
    /\ FailsRetryably(Len(plan))
    /\ r_result.exc[1].kind = "RetryError"
    /\ calls = max_attempts

(***************************************************************************)
(* C6: when an invocation raises an error whose kind the policy does not   *)
(* retry, that very error reaches the caller from that invocation: the     *)
(* operation is not invoked again, no sleep follows, and the error is not  *)
(* wrapped in RetryError.                                                  *)
(***************************************************************************)
C6_NonRetryablePropagates ==
    \A i \in 1..MaxAttempts + 1 :
        (/\ RetryEnded
         /\ i <= max_attempts
         /\ FailsRetryably(i - 1)
         /\ plan[i] # "ok" /\ ~RetryableKind(exceptions, plan[i]))
        => /\ r_result = [how |-> "raise", value |-> 0,
                          exc |-> <<Exc(plan[i], i, PyNone)>>]
           /\ calls = i
           /\ Len(slept) = i - 1

C6_Witness ==
    /\ r_pc = "raised"
    /\ calls = 2
    /\ plan[2] = "ValueError"
    /\ exceptions = TransientExceptions
    /\ r_result.exc[1].kind = "ValueError"
    /\ Len(slept) = 1

(***************************************************************************)
(* C2: the cache key is a deterministic function of (history, sanitized    *)
(* query) that never collides across histories: two sessions asking the    *)
(* same query get the same key if their histories are equal and different  *)
(* keys if their histories differ (the hash taken as injective).           *)
(***************************************************************************)
C2_KeyInjectiveInHistory ==
    k_keys # <<>> => ((k_keys[1] = k_keys[2]) <=> (k_hist[1] = k_hist[2]))

\* two sessions with different histories hold the same key
C2_Witness ==
    /\ k_keys # <<>>
    /\ k_hist[1] # k_hist[2]
    /\ k_keys[1] = k_keys[2]

\* the errors of the inference call that the inference-call policy is for
TransientKinds == {"ConnectionError", "TimeoutError"}

(***************************************************************************)
(* C3: when an answer for the turn's (history, question) pair is in the    *)
(* cache and its TTL has not elapsed, the turn is served from the cache:   *)
(* the RAG chain is not invoked for it.                                    *)
(***************************************************************************)
C3_CachedTurnSkipsInference ==
    LET key == TurnCacheKey(chat_history, validated_query)
    IN  cli_pc = "invoking" => ~(key \in DOMAIN cache /\ now <= cache[key].expires_at)

\* an empty answer is in the cache, unexpired, and the chain runs for the turn
C3_Witness ==
    LET key == TurnCacheKey(chat_history, validated_query)
    IN  /\ cli_pc = "invoking"
        /\ key \in DOMAIN cache
        /\ now <= cache[key].expires_at
        /\ cache[key].value = PyStr(<<>>)

(***************************************************************************)
(* C7: a turn is reported as failed because of a connection or timeout     *)
(* error of the inference call only after the call has been attempted      *)
(* max_attempts times (the inference-call policy's), in the CLI loop and   *)
(* in the WebSocket loop.                                                  *)
(***************************************************************************)
C7_InferenceRetriedBeforeFailure ==
    /\ (cli_turn.outcome = "failed" /\ cli_turn.error[1] \in TransientKinds)
       => cli_turn.invoked = ollama_max_attempts
    /\ \A s \in Sessions :
         (ws_turn[s].outcome = "failed" /\ ws_turn[s].failure[1] \in TransientKinds)
         => ws_turn[s].streams = ollama_max_attempts

\* a turn failed on the first connection error
C7_Witness ==
    /\ cli_turn.outcome = "failed"
    /\ cli_turn.error = <<"ConnectionError">>
    /\ cli_turn.invoked = 1

(***************************************************************************)
(* C8: the number of inference calls in flight at the same time never      *)
(* exceeds max_concurrent_requests.                                        *)
(***************************************************************************)
InFlight == {s \in Sessions : ws_pc[s] = "streaming"}

C8_InFlightBounded == Cardinality(InFlight) <= max_concurrent_requests

C8_Witness == Cardinality(InFlight) = max_concurrent_requests + 1

(***************************************************************************)
(* C9: an error raised while a turn is processed never ends the session:   *)
(* the caller gets a failure notice and the loop waits for the next        *)
(* message.  The CLI loop ends only on exit/quit, on an interrupt or when  *)
(* the read of the input itself fails; the WebSocket loop ends only when   *)
(* the client has gone.                                                    *)
(***************************************************************************)
C9_TurnFailureKeepsSession ==
    [][/\ (/\ cli_pc = "invoking"
           /\ cli_turn'.invoked = cli_turn.invoked + 1
           /\ cli_turn'.error # PyNone
           /\ IsException(cli_turn'.error[1]))
          => /\ cli_pc' = "input"
             /\ cli_turn'.printed = "failure notice"
       /\ (cli_pc \in {"input", "lookup", "invoking"} /\ cli_pc' = "ended")
          => \/ cli_pc = "input" /\ cli_turn'.outcome \in {"exit", "no input"}
             \/ cli_turn'.error = <<"KeyboardInterrupt">>
       /\ \A s \in Sessions :
            /\ (/\ ws_pc[s] = "streaming"
                /\ ws_turn'[s].failure # PyNone
                /\ ws_connected[s])
               => /\ ws_pc'[s] = "awaiting"
                  /\ ws_sent'[s] = Append(ws_sent[s], Msg("failure notice", <<>>))
            /\ (ws_pc[s] \in {"awaiting", "streaming"} /\ ws_pc'[s] = "closed")
               => ~ws_connected[s]]_vars

\* a turn has failed and the loop is at the prompt again
C9_Witness ==
    /\ cli_turn.outcome = "failed"
    /\ cli_turn.error # PyNone
    /\ cli_pc = "input"
    /\ metrics.failed_requests = 1

(***************************************************************************)
(* C10: in the CLI loop and in the WebSocket loop a message is validated   *)
(* before any cache lookup, retrieval or inference: whatever is being      *)
(* looked up or answered is the sanitized form of a message that passed    *)
(* validate_query, and a rejected message gets a notice, no retrieval or   *)
(* inference, and leaves the loop waiting for input.                       *)
(***************************************************************************)
C10_ValidatedBeforeProcessing ==
    /\ cli_pc \in {"lookup", "invoking"}
       => /\ validate_query(cli_turn.raw[1]).ok
          /\ validated_query = validate_query(cli_turn.raw[1]).value
    /\ cli_turn.outcome = "rejected"
       => /\ cli_turn.printed = "validation error"
          /\ cli_turn.invoked = 0
          /\ cli_pc = "input"
    /\ \A s \in Sessions : ws_pc[s] = "streaming" => validate_query(ws_data[s]).ok

\* the chain is streaming the answer to a message validate_query rejects
C10_Witness ==
    \E s \in Sessions :
        /\ ws_pc[s] = "streaming"
        /\ ~validate_query(ws_data[s]).ok
        /\ ws_sent[s][Len(ws_sent[s])].kind = "chunk"

(***************************************************************************)
(* C11: within one session the turns are processed one at a time, in       *)
(* arrival order: a message is read only while the session waits for       *)
(* input, the turn before it having been delivered in full or having       *)
(* failed; a turn makes at most one inference call; and an answered turn   *)
(* is appended at the end of the session's history.                        *)
(***************************************************************************)
C11_TurnsOneAtATime ==
    [][/\ (cli_turn' # cli_turn /\ cli_turn'.outcome = "processing")
          => /\ cli_pc = "input"
             /\ cli_turn.outcome # "processing"
       /\ cli_turn'.invoked <= 1
       /\ chat_history' # chat_history /\ chat_history' # <<>>
          => /\ cli_turn.outcome = "processing"
             /\ \E answer \in Responses :
                  chat_history' = chat_history \o <<Turn("user", validated_query),
                                                    Turn("assistant", answer)>>
       /\ \A s \in Sessions :
            /\ ws_turn'[s].received # ws_turn[s].received
               => /\ ws_pc[s] = "awaiting"
                  /\ ws_turn[s].outcome \in {"none", "answered", "failed"}
                  /\ ws_turn[s].outcome = "answered" => ws_stream[s] = <<>>
            /\ ws_turn'[s].streams <= 1
            /\ ws_history'[s] # ws_history[s]
               => /\ ws_turn[s].outcome = "processing"
                  /\ ws_history'[s] = ws_history[s] \o <<Turn("User", ws_data[s]),
                                                         Turn("BOT", ws_buffer[s])>>]_vars

\* a session is answering its second message, the first turn being in its history
C11_Witness ==
    \E s \in Sessions :
        /\ ws_turn[s].received = 2
        /\ ws_pc[s] = "streaming"
        /\ Len(ws_history[s]) = 2

(***************************************************************************)
(* C12: get_health_status reports 'healthy' when the success rate          *)
(* successful/total is at least 90%, 'degraded' when it is at least 70%    *)
(* and below 90%, 'unhealthy' when it is below 70%, and nothing but the    *)
(* success rate enters the classification.  The rate is compared by cross  *)
(* multiplication: successful * 100 against threshold * total.             *)
(***************************************************************************)
C12_HealthBySuccessRate ==
    health # PyNone =>
        LET ok == metrics.successful_requests * 100
            total == metrics.total_requests
        IN  health[1].status =
                IF ok >= 90 * total THEN "healthy"
                ELSE IF ok >= 70 * total THEN "degraded"
                ELSE "unhealthy"

\* a collector that has recorded no request, with 500 MB in use, is unhealthy
C12_Witness ==
    /\ health # PyNone
    /\ metrics.total_requests = 0
    /\ metrics.memory_usage_mb = 500
    /\ health[1].status = "unhealthy"

Acceptable(query) ==
    /\ StrLen(Strip(query)) \in min_query_chars..max_query_chars
    /\ ~Dangerous(Strip(query))

(***************************************************************************)
(* C14: validate_query is idempotent on accepted input: when the trimmed   *)
(* query is within the length bounds and matches no disallowed pattern,    *)
(* validate_query succeeds, succeeds again on its own result, and returns  *)
(* the same string both times.                                             *)
(***************************************************************************)
C14_ValidateIdempotent ==
    Acceptable(v_query) =>
        /\ v_first # NoValidation => v_first[1].ok
        /\ v_second # NoValidation
           => /\ v_second[1].ok
              /\ v_second[1].value = v_first[1].value

\* a query is accepted and the sanitized query it gives is rejected
C14_Witness ==
    /\ Acceptable(v_query)
    /\ v_first # NoValidation /\ v_first[1].ok
    /\ v_second # NoValidation /\ ~v_second[1].ok

\* an opening script tag with a closing script tag somewhere after it
ContainsScriptElement(query) ==
    \E i, j \in 1..Len(query) :
        /\ i < j
        /\ LowerTok(query[i]) = "<script>"
        /\ LowerTok(query[j]) = "</script>"

(***************************************************************************)
(* C15: a query that contains an opening script tag followed later by a    *)
(* closing script tag, in any letter case and with any text between them,  *)
(* newlines included, is never accepted; when its length is within the     *)
(* bounds the rejection is the unsafe-content one.                         *)
(***************************************************************************)
C15_ScriptElementRejected ==
    (v_first # NoValidation /\ ContainsScriptElement(v_query))
    => /\ ~v_first[1].ok
       /\ StrLen(Strip(v_query)) \in min_query_chars..max_query_chars
          => v_first[1].error = "unsafe"

\* a script element that spans two lines comes back as a sanitized query
C15_Witness ==
    /\ v_first # NoValidation
    /\ ContainsScriptElement(v_query)
    /\ v_first[1].ok
    /\ ContainsScriptElement(v_first[1].value)

(***************************************************************************)
(* C16: validate_query rejects a query for its length exactly when the     *)
(* length of the trimmed query lies outside                                *)
(* [min_query_length, max_query_length], the bounds of the Settings.       *)
(***************************************************************************)
C16_LengthBoundsAreConfigured ==
    v_first # NoValidation =>
        ((~v_first[1].ok /\ v_first[1].error \in {"empty", "whitespace", "too short", "too long"})
         <=> StrLen(Strip(v_query)) \notin
                 settings.min_query_length..settings.max_query_length)

\* a query longer than the configured maximum is accepted
C16_Witness ==
    /\ v_first # NoValidation
    /\ v_first[1].ok
    /\ StrLen(Strip(v_query)) > settings.max_query_length

(***************************************************************************)
(* C17: the context returned by the optimizer is never longer than the     *)
(* budget: max_chars characters for optimize_context_for_tinydolphin, 800  *)
(* characters for minimal_context_processing.                              *)
(***************************************************************************)
C17_ContextWithinBudget ==
    /\ optimized # PyNone => optimized[1].len <= max_chars
    /\ minimal # PyNone => minimal[1].len <= total_limit_chars

\* two documents of 500 characters make a context of 1002 characters
C17_Witness ==
    /\ optimized # PyNone
    /\ max_chars = default_max_chars
    /\ Len(optimized[1].parts) = 2
    /\ \A k \in 1..2 : optimized[1].parts[k].whole
    /\ optimized[1].len = default_max_chars + 2

\* the pieces are documents 1, 2, ... in that order
InInputOrder(parts) == \A k \in 1..Len(parts) : parts[k].doc = k

\* every piece but the last is a whole document
OnlyLastCut(parts) == \A k \in 1..Len(parts) - 1 : parts[k].whole

(***************************************************************************)
(* C18, as stated: in both optimizers the documents included whole are the *)
(* first j of the input order, in that order, and once a document has been *)
(* left out or truncated no later document appears in the context.         *)
(***************************************************************************)
C18_Original ==
    /\ optimized # PyNone
       => InInputOrder(optimized[1].parts) /\ OnlyLastCut(optimized[1].parts)
    /\ minimal # PyNone
       => InInputOrder(minimal[1].parts) /\ OnlyLastCut(minimal[1].parts)

(***************************************************************************)
(* C18, amended: optimize_context_for_tinydolphin includes the first j     *)
(* documents whole, in input order, followed at most by a truncated piece  *)
(* of document j+1, and nothing after a document that was left out or      *)
(* truncated.  minimal_context_processing first cuts every document to its *)
(* first 400 characters; its context is made of the cut forms of the first *)
(* j documents, in input order, and no document after one that was left    *)
(* out.                                                                    *)
(***************************************************************************)
C18_PrefixOfRanking ==
    /\ optimized # PyNone
       => /\ InInputOrder(optimized[1].parts)
          /\ OnlyLastCut(optimized[1].parts)
          /\ \A k \in 1..Len(optimized[1].parts) :
               optimized[1].parts[k].whole
               => optimized[1].parts[k].taken = ContentLen(docs[k])
    /\ minimal # PyNone
       => /\ InInputOrder(minimal[1].parts)
          /\ \A k \in 1..Len(minimal[1].parts) :
               minimal[1].parts[k].taken = Min(ContentLen(docs[k]), doc_limit_chars)

\* of three documents the first is whole, the second cut, the third left out;
\* the streamlined chain has cut the first to 400 characters
C18_Witness ==
    /\ Len(docs) = 3
    /\ optimized # PyNone
    /\ Len(optimized[1].parts) = 2
    /\ optimized[1].parts[1].whole
    /\ ~optimized[1].parts[2].whole
    /\ minimal # PyNone
    /\ minimal[1].parts # <<>>
    /\ minimal[1].parts[1].taken < ContentLen(docs[1])

(***************************************************************************)
(* C19: under any interleaving of concurrent get, set and clear calls on   *)
(* the shared SimpleCache no call fails with an error, and every get       *)
(* returns a miss or a complete value that some set stored for that key.   *)
(***************************************************************************)
C19_ConcurrentCallsNeverFail ==
    \A t \in Threads :
        /\ ct_result[t].how # "raise"
        /\ (ct_result[t].op = "get" /\ ct_result[t].how = "return"
            /\ ct_result[t].value # PyNone)
           => <<ct_key[t], ct_result[t].value>> \in stored

\* a get has raised KeyError
C19_Witness ==
    \E t \in Threads : ct_result[t] = Raised("get", "KeyError")

(***************************************************************************)
(* C20: when k record_request calls run concurrently, after all of them    *)
(* have completed total_requests has grown by exactly k and                *)
(* total_requests = successful_requests + failed_requests.                 *)
(***************************************************************************)
C20_NoLostIncrement ==
    (\A t \in Threads : mt_pc[t] = "idle")
    => /\ metrics.total_requests = mt_started
       /\ metrics.total_requests = metrics.successful_requests + metrics.failed_requests

\* two calls have completed and total_requests is 1
C20_Witness ==
    /\ \A t \in Threads : mt_pc[t] = "idle"
    /\ mt_started = 2
    /\ metrics.total_requests = 1

(***************************************************************************)
(* C21: on a cache hit the CLI session delivers the cached answer once,    *)
(* appends exactly the pair (user: sanitized query, assistant: cached      *)
(* answer) to its history, records a cache-hit metric (cache_hits grows by *)
(* one) and returns to waiting for input.                                  *)
(***************************************************************************)
C21_CacheHitTurn ==
    [][(cli_pc = "lookup" /\ cli_turn'.outcome = "hit")
       => LET key == TurnCacheKey(chat_history, validated_query)
              answer == CacheGetResult(cache, key, now)
          IN  /\ cli_turn'.delivered = answer
              /\ cli_turn'.invoked = 0
              /\ chat_history' = chat_history \o <<Turn("user", validated_query),
                                                   Turn("assistant", answer[1])>>
              /\ metrics'.cache_hits = metrics.cache_hits + 1
              /\ cli_pc' = "input"]_vars

\* a turn was served from the cache and cache_hits is still 0
C21_Witness ==
    /\ cli_turn.outcome = "hit"
    /\ cli_turn.delivered # PyNone
    /\ metrics.total_requests = 2
    /\ metrics.cache_hits = 0

\* the step ends a turn with the given outcome: one more request is counted,
\* as a success or as a failure of the given kind
CountedOnce(success, kind) ==
    /\ metrics'.total_requests = metrics.total_requests + 1
    /\ metrics'.successful_requests =
         metrics.successful_requests + (IF success THEN 1 ELSE 0)
    /\ metrics'.failed_requests = metrics.failed_requests + (IF success THEN 0 ELSE 1)
    /\ ~success => /\ kind[1] \in DOMAIN metrics'.error_counts
                   /\ metrics'.error_counts[kind[1]] =
                        (IF kind[1] \in DOMAIN metrics.error_counts
                         THEN metrics.error_counts[kind[1]] ELSE 0) + 1

(***************************************************************************)
(* C22: every turn that passes validation ends with exactly one            *)
(* record_request call, in the CLI loop and in the WebSocket loop:         *)
(* success=True for an answer delivered from cache or from inference,      *)
(* success=False with the error kind for a turn that failed; no other step *)
(* records a request.                                                      *)
(***************************************************************************)
C22_EveryTurnRecorded ==
    [][/\ (cli_turn.outcome = "processing" /\ cli_turn'.outcome \in {"hit", "answered"})
          => CountedOnce(TRUE, PyNone)
       /\ (cli_turn.outcome = "processing" /\ cli_turn'.outcome = "failed")
          => CountedOnce(FALSE, cli_turn'.error)
       /\ \A s \in Sessions :
            /\ (ws_turn[s].outcome = "processing" /\ ws_turn'[s].outcome = "answered")
               => CountedOnce(TRUE, PyNone)
            /\ (ws_turn[s].outcome = "processing" /\ ws_turn'[s].outcome = "failed")
               => CountedOnce(FALSE, ws_turn'[s].failure)
       /\ metrics'.total_requests # metrics.total_requests
          => \/ cli_turn.outcome = "processing" /\ cli_turn'.outcome # "processing"
             \/ \E s \in Sessions :
                  ws_turn[s].outcome = "processing" /\ ws_turn'[s].outcome # "processing"]_vars

\* a WebSocket turn has been answered and no request has been recorded
C22_Witness ==
    \E s \in Sessions :
        /\ ws_turn[s].outcome = "answered"
        /\ ws_history[s] # <<>>
        /\ metrics.total_requests = 0

\* Settings.cache_ttl: Field(ge=60, le=86400)
cache_ttl_min == 60
cache_ttl_max == 86400

(***************************************************************************)
(* C23: for every entry stored by set, the lifetime given to it            *)
(* (expires_at minus the time of the set) lies in [60, 86400] seconds      *)
(* whatever ttl argument was passed, and is the default TTL when no ttl is *)
(* given; set replaces the value and the expiry of an entry for the key.   *)
(***************************************************************************)
C23_LifetimeClamped ==
    lastCall.op = "set" =>
        /\ lastCall.key \in DOMAIN cache
        /\ cache[lastCall.key].value = lastCall.value
        /\ cache[lastCall.key].expires_at - lastCall.at \in cache_ttl_min..cache_ttl_max
        /\ lastCall.ttl = PyNone
           => cache[lastCall.key].expires_at - lastCall.at = default_ttl

\* set(key, value, ttl=1) has stored an entry that lives for one second
C23_Witness ==
    /\ lastCall.op = "set"
    /\ lastCall.ttl = <<1>>
    /\ cache[lastCall.key].expires_at = lastCall.at + 1

UserRoles == {"user", "User"}
AssistantRoles == {"assistant", "BOT"}

\* complete (user, assistant) pairs, in that order
PairsOnly(history) ==
    /\ Len(history) % 2 = 0
    /\ \A i \in 1..Len(history) :
         history[i].role \in (IF i % 2 = 1 THEN UserRoles ELSE AssistantRoles)

\* the step leaves the history alone or appends exactly one pair to it
GrowsByOnePair(before, after) ==
    \/ after = before
    \/ /\ Len(after) = Len(before) + 2
       /\ SubSeq(after, 1, Len(before)) = before

(***************************************************************************)
(* C24: the conversation history of a session is a sequence of complete    *)
(* (user, assistant) pairs in arrival order: its length is even, the roles *)
(* alternate starting with the user, every step leaves it unchanged or     *)
(* appends exactly one pair, no entry is removed or altered, and a turn of *)
(* one session never changes the history of another session.  A CLI        *)
(* session begins when handle_chat is called, with an empty history.       *)
(***************************************************************************)
C24_HistoryOfPairs ==
    [][/\ PairsOnly(chat_history')
       /\ \A s \in Sessions : PairsOnly(ws_history'[s])
       /\ IF cli_pc \in {"off", "ended"}
          THEN chat_history' \in {chat_history, <<>>}
          ELSE GrowsByOnePair(chat_history, chat_history')
       /\ \A s \in Sessions :
            /\ GrowsByOnePair(ws_history[s], ws_history'[s])
            /\ ws_history'[s] # ws_history[s]
               => /\ chat_history' = chat_history
                  /\ \A o \in Sessions \ {s} : ws_history'[o] = ws_history[o]]_vars

\* one connection has two pairs in its history, the other none
C24_Witness ==
    \E s \in Sessions :
        /\ Len(ws_history[s]) = 4
        /\ \A o \in Sessions \ {s} : ws_history[o] = <<>>

\* the texts of a run of messages, one after the other
RECURSIVE SentText(_)
SentText(msgs) ==
    IF msgs = <<>> THEN <<>> ELSE Head(msgs).text \o SentText(Tail(msgs))

\* what the connection was sent since its current turn began
SentThisTurn(s) == SubSeq(ws_sent[s], ws_turn[s].sent_before + 1, Len(ws_sent[s]))

(***************************************************************************)
(* C25: in a WebSocket session every fragment taken from the inference     *)
(* stream is sent to the client in the step that takes it, before the next *)
(* one is taken, so fragments go out in stream order; and the assistant    *)
(* text appended to the history for a turn is the concatenation, in order, *)
(* of exactly the fragments sent during that turn.                         *)
(***************************************************************************)
C25_FragmentsInOrder ==
    [][\A s \in Sessions :
         /\ (ws_pc[s] = "streaming" /\ ws_stream'[s] # ws_stream[s])
            => /\ ws_stream'[s] = Tail(ws_stream[s])
               /\ \/ ws_sent'[s] = Append(ws_sent[s], Msg("chunk", Head(ws_stream[s])))
                  \/ ws_pc'[s] = "closed" /\ ws_history'[s] = ws_history[s]
         /\ ws_history'[s] # ws_history[s]
            => /\ \A i \in 1..Len(SentThisTurn(s)) : SentThisTurn(s)[i].kind = "chunk"
               /\ ws_history'[s][Len(ws_history'[s])].content = SentText(SentThisTurn(s))]_vars

\* a second answer of two fragments is in the history, both sent after those of the first
C25_Witness ==
    \E s \in Sessions :
        /\ Len(ws_history[s]) = 4
        /\ ws_history[s][4].content = <<"x", "y">>
        /\ ws_turn[s].sent_before >= 2
        /\ SentThisTurn(s) = <<Msg("chunk", <<"x">>), Msg("chunk", <<"y">>)>>

\* '..' in path, read off the characters
HasDotDot(path) == \E i \in 1..(Len(path) - 1) : path[i] = "." /\ path[i + 1] = "."
\* the lower-cased path ends in '.txt' or in '.pdf'
HasAllowedEnding(path) ==
    /\ Len(path) >= 4
    /\ LET n == Len(path)
       IN /\ path[n - 3] = "."
          /\ \/ path[n - 2] \in {"t", "T"} /\ path[n - 1] = "x" /\ path[n] \in {"t", "T"}
             \/ path[n - 2] = "p" /\ path[n - 1] = "d" /\ path[n] = "f"

(***************************************************************************)
(* C26: validate_file_path rejects with ValidationError every empty path,  *)
(* every path that contains '..' or starts with '/', and every path whose  *)
(* lower-cased form ends in neither '.txt' nor '.pdf'; every other path is *)
(* accepted and returned unchanged.                                        *)
(***************************************************************************)
C26_FilePathRule ==
    path_result # PyNone
    => LET rejected == \/ file_path = <<>>
                       \/ HasDotDot(file_path)
                       \/ (file_path # <<>> /\ file_path[1] = "/")
                       \/ ~HasAllowedEnding(file_path)
       IN IF rejected THEN ~path_result[1].ok
          ELSE path_result[1].ok /\ path_result[1].value = file_path

\* a path with an upper-case extension was accepted as written
C26_Witness ==
    /\ path_result # PyNone
    /\ path_result[1].ok
    /\ file_path = <<"t", ".", "T", "x", "T">>

\* the characters of s that are not whitespace, in order
NonSpace(s) == SelectSeq(s, LAMBDA tok : ~IsSpace(tok))

\* no whitespace at either end, none next to another, and all of it single spaces
Normalized(s) ==
    /\ s # <<>> => ~IsSpace(s[1]) /\ ~IsSpace(s[Len(s)])
    /\ \A i \in 1..(Len(s) - 1) : ~(IsSpace(s[i]) /\ IsSpace(s[i + 1]))
    /\ \A i \in 1..Len(s) : IsSpace(s[i]) => s[i] = " "

(***************************************************************************)
(* C27: whenever validate_query succeeds the returned string has no        *)
(* leading or trailing whitespace, no two adjacent whitespace characters,  *)
(* only single spaces as whitespace, and the non-whitespace characters of  *)
(* the input in the same order; an input that is already normalized is     *)
(* returned unchanged.                                                     *)
(***************************************************************************)
C27_OutputNormalized ==
    (v_first # NoValidation /\ v_first[1].ok)
    => /\ Normalized(v_first[1].value)
       /\ NonSpace(v_first[1].value) = NonSpace(v_query)
       /\ Normalized(v_query) => v_first[1].value = v_query

\* a query with a newline next to a space was accepted
C27_Witness ==
    /\ v_first # NoValidation
    /\ v_first[1].ok
    /\ v_query = <<"x", " ", "\n", "x">>
    /\ v_first[1].value = <<"x", " ", "x">>

\* the last n items of seq
LastOf(seq, n) == SubSeq(seq, Len(seq) - n + 1, Len(seq))

(***************************************************************************)
(* C28: after n >= 1 record_request calls average_response_time is the     *)
(* arithmetic mean of the last min(n, 100) recorded response times, so     *)
(* samples older than the most recent 100 have no influence on it, while   *)
(* total_requests still counts all n calls.                                *)
(***************************************************************************)
C28_MovingAverage ==
    recorded.calls >= 1
    => LET n == recorded.calls
           window == LastOf(recorded.times, IF n < 100 THEN n ELSE 100)
       IN /\ Len(recorded.times) = n
          /\ metrics.average_response_time = [sum |-> Sum(window), n |-> Len(window)]
          /\ metrics.total_requests = n
          /\ metrics.successful_requests + metrics.failed_requests = n

\* more than 100 calls were made, some in the steps taken, and the samples
\* that fell out of the window would have changed the mean
C28_Witness ==
    /\ recorded.calls > 100
    /\ recorded.calls >= recorded.before + 2
    /\ metrics.total_requests = recorded.calls
    /\ metrics.average_response_time.n = 100
    /\ metrics.average_response_time.sum * recorded.calls # Sum(recorded.times) * 100

\* len(content) of the first k documents together
PackedLen(ds, k) == Sum([m \in 1..k |-> ContentLen(ds[m])])

\* how many documents, from the first, fit whole within the limit
FitWhole(ds, limit) ==
    CHOOSE k \in 0..Len(ds) :
        /\ PackedLen(ds, k) <= limit
        /\ k < Len(ds) => PackedLen(ds, k + 1) > limit

C30_BackoffDelays ==
    /\ Len(delays) = Len(slept)
    /\ \A k \in 1..Len(delays) :
         LET i == k - 1
             num == backoff.base_delay * Pow(backoff.exponential_base[1], i)
             den == Pow(backoff.exponential_base[2], i)
             unjittered == IF num <= backoff.max_delay * den
                           THEN (num * DelayUnits) \div den
                           ELSE backoff.max_delay * DelayUnits
         IN /\ slept[k] = i
            /\ IF backoff.jitter
               THEN 2 * delays[k] >= unjittered /\ delays[k] <= unjittered
               ELSE delays[k] = unjittered
            /\ delays[k] <= backoff.max_delay * DelayUnits
            /\ (~backoff.jitter /\ k < Len(delays)) => delays[k] <= delays[k + 1]

\* after the second failure of a call whose delays have reached max_delay, a
\* jittered delay below max_delay was slept
C30_Witness ==
    /\ backoff = TightJitterBackoff
    /\ Len(delays) = 2
    /\ delays[1] < 2 * DelayUnits
    /\ delays[2] < 3 * DelayUnits
    /\ 2 * delays[2] > 3 * DelayUnits

\* the kinds the inference-call policy is meant to retry
ConnectionOrTimeout == {"ConnectionError", "TimeoutError"}

(***************************************************************************)
(* C31: under retry_ollama_connection's policy the retryable kinds are the *)
(* connection and timeout errors: when an invocation raises an error of    *)
(* any other kind, that error reaches the caller from its first            *)
(* occurrence, without a further invocation and without being turned into  *)
(* RetryError.                                                             *)
(***************************************************************************)
C31_OllamaRetriesTransientOnly ==
    \A i \in 1..MaxAttempts + 1 :
        (/\ RetryEnded
         /\ exceptions = OllamaExceptions
         /\ i <= max_attempts
         /\ \A j \in 1..(i - 1) : plan[j] \in ConnectionOrTimeout
         /\ plan[i] \notin ConnectionOrTimeout \cup {"ok"})
        => /\ r_result = [how |-> "raise", value |-> 0,
                          exc |-> <<Exc(plan[i], i, PyNone)>>]
           /\ calls = i

\* a ValueError of the first invocation was retried, and the call ended in
\* RetryError when the operation kept failing
C31_Witness ==
    /\ r_pc = "raised"
    /\ exceptions = OllamaExceptions
    /\ plan[1] = "ValueError"
    /\ calls = max_attempts
    /\ calls >= 2
    /\ r_result.exc[1].kind = "RetryError"

\* the step ends a CLI turn in a failure of rag_chain.invoke
CliTurnFails == cli_pc = "invoking" /\ cli_turn'.outcome \in {"failed", "interrupted"}
\* the step ends a turn of connection s in a failure of the stream or of a send
WsTurnFails(s) ==
    ws_pc[s] = "streaming" /\ ws_turn'[s].outcome \in {"failed", "send failed"}

\* no key has a new entry or a changed one, and what went away had expired
OnlyExpiredRemoved(before, after, t) ==
    /\ \A k \in DOMAIN after : k \in DOMAIN before /\ after[k] = before[k]
    /\ \A k \in DOMAIN before \ DOMAIN after : Expired(before[k], t)

(***************************************************************************)
(* C32, as stated: a turn that fails during retrieval or inference leaves  *)
(* the session history and the cache exactly as they were before the turn, *)
(* in the CLI path and in the WebSocket path.  The cache of a failing CLI  *)
(* turn is the one its lookup found: the lookup has removed nothing.       *)
(***************************************************************************)
C32_Original ==
    [][/\ CliTurnFails
          => chat_history' = chat_history /\ cache' = cache /\ ~lastCall.evicted
       /\ \A s \in Sessions :
            WsTurnFails(s) => ws_history' = ws_history /\ cache' = cache]_vars

(***************************************************************************)
(* C32, amended: a failing turn appends no pair to the history and writes  *)
(* or changes no cache entry; the only change of the cache during such a   *)
(* turn is that its lookup removes the entry under the looked-up key when  *)
(* that entry had expired.  In the WebSocket path this holds also when     *)
(* fragments of the answer had already been sent.                          *)
(***************************************************************************)
C32_FailedTurnWritesNothing ==
    [][/\ (cli_pc = "lookup" /\ cli_pc' = "invoking")
          => /\ chat_history' = chat_history
             /\ OnlyExpiredRemoved(cache, cache', now)
             /\ DOMAIN cache \ DOMAIN cache'
                  \subseteq {TurnCacheKey(chat_history, validated_query)}
       /\ CliTurnFails => chat_history' = chat_history /\ cache' = cache
       /\ \A s \in Sessions :
            WsTurnFails(s) => ws_history' = ws_history /\ cache' = cache]_vars

\* a stream failed after a fragment had gone out, and the history is empty
C32_Witness ==
    \E s \in Sessions :
        /\ ws_turn[s].outcome = "failed"
        /\ ws_turn[s].received = 1
        /\ ws_buffer[s] # <<>>
        /\ Len(ws_sent[s]) >= 3
        /\ ws_history[s] = <<>>

\* the keys the answered turns of a history were stored under: turn j was
\* asked when the history held the j - 1 pairs before it
KeysOfSession(history) ==
    {TurnCacheKey(SubSeq(history, 1, 2 * (j - 1)), history[2 * j - 1].content) :
        j \in 1..(Len(history) \div 2)}

(***************************************************************************)
(* C33: within a single CLI chat session that starts with an empty cache   *)
(* no cache lookup ever hits.  Every entry such a session has stored lies  *)
(* under the key of one of its answered turns; the key looked up at a turn *)
(* is built from the whole history and differs from all of them (the hash  *)
(* taken as injective), so the lookup misses and the turn runs inference.  *)
(***************************************************************************)
C33_NoHitWithinSession ==
    [][(/\ cli_pc = "lookup" /\ cli_pc' # "lookup"
        /\ DOMAIN cache \subseteq KeysOfSession(chat_history))
       => /\ TurnCacheKey(chat_history, validated_query) \notin KeysOfSession(chat_history)
          /\ lastCall'.ret = PyNone
          /\ cli_pc' = "invoking"
          /\ chat_history' = chat_history]_vars

\* the question of the first turn is asked again while its answer is in the
\* cache, not expired, and the chain is about to be invoked
C33_Witness ==
    /\ cli_pc = "invoking"
    /\ Len(chat_history) = 2
    /\ chat_history[1].content = validated_query
    /\ DOMAIN cache = KeysOfSession(chat_history)
    /\ \E k \in DOMAIN cache : cache[k].value = PyStr(<<"x">>) /\ ~Expired(cache[k], now)

(***************************************************************************)
(* C34: the number of times retry_with_backoff invokes the operation is    *)
(* between 1 and max_attempts whenever max_attempts >= 1; for              *)
(* max_attempts <= 0 the operation is never invoked and the call ends by   *)
(* raising RetryError without any underlying error and without sleeping.   *)
(***************************************************************************)
C34_InvocationCount ==
    /\ (r_pc # "idle" /\ max_attempts >= 1) => calls <= max_attempts
    /\ (RetryEnded /\ max_attempts >= 1) => calls >= 1
    /\ (RetryEnded /\ max_attempts <= 0)
       => /\ calls = 0
          /\ slept = <<>>
          /\ last_exception = PyNone
          /\ r_result = [how |-> "raise", value |-> 0,
                         exc |-> <<Exc("RetryError", 0, PyNone)>>]

\* a call with max_attempts = 0 has ended in RetryError
C34_Witness ==
    /\ r_pc = "raised"
    /\ max_attempts = 0
    /\ calls = 0
    /\ r_result.exc[1].kind = "RetryError"
    /\ r_result.exc[1].cause = PyNone

\* the entry the cache holds for the turn in progress, None when it holds
\* none or an expired one
LiveAnswer ==
    LET key == TurnCacheKey(chat_history, validated_query)
    IN  IF key \in DOMAIN cache /\ ~Expired(cache[key], now) THEN <<cache[key]>> ELSE <<>>

(***************************************************************************)
(* C35: a cached answer that is the empty string is treated by the CLI     *)
(* session as a miss: the turn goes on to run inference and the answer it  *)
(* gets overwrites the entry, so only a non-empty cached answer            *)
(* short-circuits a turn; likewise the cached decorator never serves a     *)
(* None result from the cache: it runs the function again.                 *)
(***************************************************************************)
C35_EmptyAnswerIsAMiss ==
    [][/\ (cli_pc = "lookup" /\ cli_pc' # "lookup")
          => /\ (LiveAnswer # <<>> /\ LiveAnswer[1].value = PyStr(<<>>))
                => cli_pc' = "invoking" /\ chat_history' = chat_history
             /\ cli_turn'.outcome = "hit"
                => /\ LiveAnswer # <<>>
                   /\ LiveAnswer[1].value \notin {PyNone, PyStr(<<>>)}
                   /\ cli_turn'.delivered = LiveAnswer[1].value
       /\ (cli_pc = "invoking" /\ cli_turn'.outcome = "answered")
          => LET key == TurnCacheKey(chat_history, validated_query)
             IN  /\ key \in DOMAIN cache'
                 /\ cache'[key] = [value |-> cli_turn'.delivered,
                                   expires_at |-> now + query_ttl]
       /\ cached_call'.calls # cached_call.calls
          => /\ ~cached_call'.executed
                => /\ cached_call'.returned # PyNone
                   /\ cached_call'.returned = cache[cached_call'.key].value
             /\ (/\ cached_call'.key \in DOMAIN cache
                 /\ cache[cached_call'.key].value = PyNone)
                => cached_call'.executed]_vars

\* the lookup of the turn has returned the empty string, the entry has not
\* expired, and the chat loop is about to run the chain
C35_Witness ==
    /\ cli_pc = "invoking"
    /\ cli_turn.outcome = "processing"
    /\ lastCall.op = "get"
    /\ lastCall.ret = PyStr(<<>>)
    /\ LiveAnswer # <<>>
    /\ LiveAnswer[1].expires_at > now

\* how many of the messages sent are of the given kind
SentOfKind(msgs, kind) == Cardinality({i \in 1..Len(msgs) : msgs[i].kind = kind})

(***************************************************************************)
(* C36: if the RAG chain is not initialised when a WebSocket connection is *)
(* accepted, the session sends exactly one error notice, closes and ends:  *)
(* it never sends the ready notice, never reads an inbound message and     *)
(* never starts an inference call; otherwise the ready notice is sent      *)
(* exactly once, before the first message is read.                         *)
(***************************************************************************)
C36_ReadyOrRefused ==
    \A s \in Sessions :
        ws_pc[s] # "off"
        => IF rag_chain # "ready"
           THEN /\ ws_sent[s] = <<Msg("not initialized", <<>>)>>
                /\ ws_pc[s] = "closed"
                /\ ~ws_connected[s]
                /\ ws_turn[s].received = 0
                /\ ws_turn[s].streams = 0
                /\ ws_history[s] = <<>>
           ELSE /\ ws_sent[s][1] = Msg("ready", <<>>)
                /\ SentOfKind(ws_sent[s], "ready") = 1
                /\ SentOfKind(ws_sent[s], "not initialized") = 0

\* one connection was refused with the error notice while another has not
\* been accepted yet
C36_Witness ==
    /\ rag_chain = "unset"
    /\ \E s \in Sessions :
         /\ ws_pc[s] = "closed"
         /\ ws_sent[s] = <<Msg("not initialized", <<>>)>>
         /\ \E o \in Sessions \ {s} : ws_pc[o] = "off"
====
